---- MODULE Spec2Model ----
(***************************************************************************)
(* bloatSQL (src-tauri): the active-connection slot and its commands, the   *)
(* two connection drivers (MariaDB, PostgreSQL), the connection factory,    *)
(* the query row cap, update_cell, the SQL export engine, query timeouts    *)
(* and the credential store.                                                *)
(*                                                                          *)
(* Spec        the Tauri commands of commands.rs running concurrently       *)
(*             against the slot and the drivers' connection state           *)
(* SpecQuery   execute_query of the two drivers: the row cap                *)
(* SpecFactory create_connection of db/factory.rs: engine-kind resolution   *)
(* SpecUpdate  update_cell of the two drivers: the statement that is sent   *)
(* SpecExport  the export_database command and the two drivers'             *)
(*             export_database_with_options                                 *)
(* SpecBatch   the same export of tables of up to MaxBatchRows rows         *)
(* SpecTimeout one query of a driver and the wait for its answer            *)
(* SpecDisconnect  connects and disconnects, with the history of the        *)
(*             disconnects since the slot was last filled                   *)
(* SpecCipher  encrypt_password and decrypt_password on one password        *)
(* SpecStore   the commands of the credential store on its table            *)
(* SpecFormat  the text of an export: the statements that carry a name, the *)
(*             literals of the values and the row-data statement            *)
(* SpecPages   the row-data loop of the export over tables of several       *)
(*             pages, page by page; SpecPagesLive adds that the loop's      *)
(*             steps are taken                                              *)
(* SpecFailedDisconnect  Spec with the record of a disconnect that failed   *)
(* SpecLocks   the lock sites of the commands and the drivers;              *)
(*             SpecLocksLive adds the fairness of the mutexes               *)
(***************************************************************************)
EXTENDS Integers, Sequences, FiniteSets, TLC

(***************************************************************************)
(* Bounds of the model.                                                     *)
(***************************************************************************)
\* concurrent command invocations (Tauri runs each invoke as its own task)
NumProcs == 2
\* pooled MariaDB sessions the model distinguishes (the pool holds 1..5)
PoolConns == 2

Procs == 1 .. NumProcs
Sessions == 1 .. PoolConns
DBs == {"db1", "db2"}
Variants == {"mariadb", "postgresql"}

VARIABLES
    \* ---- commands.rs / main.rs: the managed state and the running commands
    slot,         \* ActiveConnection's Option<Arc<dyn DatabaseConnection>>
    lock,         \* holder of the ActiveConnection mutex, 0 = free
    own,          \* per invocation: the connection it owns (db_conn before it is
                  \*   stored, conn after active.take())
    pc,           \* per invocation: where the command is
    cmd,          \* per invocation: the command
    arg,          \* per invocation: database_name of change_database
    hconn,        \* per invocation: the connection it calls: "slot" (borrowed
                  \*   through the guard), "own", or "none"
    sess,         \* per invocation: the pooled session get_conn handed out
    newcl,        \* per invocation: new_client of PostgresConnection::change_database
    res,          \* per invocation: the result ("ok" or an error)
    out,          \* per invocation: the String get_current_database returned
    ranOn         \* per invocation: the database the operation's queries ran against

VARIABLES
    \* ---- db/mariadb.rs, db/postgresql.rs: one execute_query call
    q_variant,    \* the driver
    q_engine,     \* number of rows the engine produces; row i of the result set is i
    q_pc,         \* "call" -> "rows" (MariaDB's row stream) -> "ok" | "err"
    q_fetched,    \* rows the MariaDB stream has handed out
    row_count,    \* row_count / total_rows
    truncated,
    result_rows,  \* result_rows, the rows of the QueryResult
    q_code        \* the error code of a failed call

VARIABLES
    \* ---- db/factory.rs: one create_connection call
    f_db_type,    \* the db_type argument, a sequence of characters
    f_pc,         \* "call" -> "maria_new" | "pg_new" -> "ok" | "err"
    f_variant,    \* the driver whose constructor was chosen
    f_attempts,   \* connection attempts made by the chosen constructor
    f_code,       \* the error code of a failed call
    f_ssl_mode,   \* the ssl_mode argument
    f_log         \* the connection attempts in order: who made it, encrypted or not, outcome

VARIABLES
    \* ---- db/mariadb.rs, db/postgresql.rs: one update_cell call
    u_variant,    \* the driver
    u_req,        \* table_name, column_name, new_value, primary_key_column, primary_key_value
    u_pc,         \* "call" -> "exec" -> "ok" | "err"
    u_sql,        \* the SQL text handed to the engine, <<>> before that
    u_params,     \* the parameters bound to it
    u_sent,       \* a statement was handed to the engine
    u_ret,        \* the value of Ok(..)
    u_code,       \* the error code of a failed call
    u_result      \* the UpdateCellResult of the update_cell command

VARIABLES
    \* ---- commands.rs export_database and the drivers' export_database_with_options
    e_variant,        \* the driver
    e_opts,           \* include_drop, include_create, data_mode, selected_tables, max_insert_size
    e_rows,           \* the engine: number of rows of each of its tables; row i of a table is i
    e_pc,             \* position in the export
    sql_content,      \* the statements pushed so far, in order
    tables_to_export, \* the tables the for loop has still to visit
    e_table,          \* table_name of the current turn of the for loop
    offset,
    e_page_len,       \* rows of the page that was queried last
    e_next,           \* rows of that page the row loop has taken
    rows_in_batch,
    row_buffer,
    e_queries,        \* queries sent to the engine so far
    e_page_queries,   \* data page queries among them
    e_failed_at,      \* "none", or the query that failed
    e_fail_queries,   \* e_queries when that query failed
    e_ret,            \* what export_database_with_options returned
    e_file            \* the file export_database wrote

VARIABLES
    \* ---- one query a driver sends to the engine, and the wait for its answer
    t_site,       \* the place in the driver that sends the query
    t_clock,      \* seconds since the query was sent
    t_engine,     \* "pending", or how the engine answered: "ok", "failed"
    t_ret         \* "none" while the driver waits, else "ok" or the error code it returned

VARIABLES
    \* ---- history of disconnect_from_database
    d_log         \* the disconnects that returned since the slot was last filled

VARIABLES
    \* ---- connections_store.rs encrypt_password / decrypt_password on one value
    c_key,        \* encryption_key of the store
    c_password,   \* the password, as the bytes of its UTF-8 text
    c_stored,     \* the text in the password_encrypted column, as bytes
    c_how,        \* how that text came to be: "none", "encrypted", "legacy"
    c_out         \* what decrypt_password returned for it

VARIABLES
    \* ---- connections_store.rs and its commands
    s_key,        \* encryption_key of the store
    s_rows,       \* the connections table, its rows in rowid order
    s_now,        \* CURRENT_TIMESTAMP, in seconds
    s_uuids,      \* how many identifiers Uuid::new_v4 has drawn
    s_plain,      \* history: the password each stored id was last saved with
    s_call,       \* the last command and its argument
    s_store_ret,  \* what the function of ConnectionsStore returned to it
    s_ret         \* what the command returned to its caller

VARIABLES
    \* ---- the text the export generates
    w_variant,    \* the driver that writes
    w_db,         \* current_database of the connection
    w_table,      \* table_name of the table being exported
    w_columns,    \* the columns of the table: name and type
    w_rows,       \* row_buffer: the rows of the statement, as the engine holds them
    w_data_mode,  \* data_mode of the export
    w_pc,         \* the next text to generate
    w_lines       \* the texts generated so far

VARIABLES
    \* ---- the row-data loop of the export, page by page
    p_variant,          \* the driver that exports
    p_rows,             \* rows of the table
    p_max_insert_size,  \* max_insert_size of the export
    p_offset,           \* offset
    p_pc,               \* where the loop is
    p_page,             \* rows of the page the loop is at (rows_in_batch, data_rows.len())
    p_queries,          \* history: the offsets of the page queries sent
    p_statements,       \* the row-data statements in sql_content
    p_text_rows         \* rows in the text of sql_content

VARIABLES
    \* ---- the locks of the commands and the drivers
    k_conn,       \* the variant of the connection in the slot, "none" when empty
    k_cmd,        \* the command each invocation runs
    k_ops,        \* what is left of it: lock sites and awaits
    k_held,       \* the guards it holds, in the order it acquired them
    k_new         \* the variant of the connection a connect_to_database creates

mainVars == <<slot, lock, own, pc, cmd, arg, hconn, sess, newcl, res, out, ranOn>>
queryVars == <<q_variant, q_engine, q_pc, q_fetched, row_count, truncated, result_rows, q_code>>

factoryVars == <<f_db_type, f_pc, f_variant, f_attempts, f_code, f_ssl_mode, f_log>>

updateVars == <<u_variant, u_req, u_pc, u_sql, u_params, u_sent, u_ret, u_code, u_result>>

exportConfig == <<e_variant, e_opts, e_rows>>
exportLoop == <<offset, e_page_len, e_next, rows_in_batch, row_buffer>>
exportVars == <<exportConfig, e_pc, sql_content, tables_to_export, e_table, exportLoop,
                e_queries, e_page_queries, e_failed_at, e_fail_queries, e_ret, e_file>>

timeoutVars == <<t_site, t_clock, t_engine, t_ret>>

historyVars == <<d_log>>

cipherVars == <<c_key, c_password, c_stored, c_how, c_out>>

storeVars == <<s_key, s_rows, s_now, s_uuids, s_plain, s_call, s_store_ret, s_ret>>

formatVars == <<w_variant, w_db, w_table, w_columns, w_rows, w_data_mode, w_pc, w_lines>>

pageVars == <<p_variant, p_rows, p_max_insert_size, p_offset, p_pc, p_page, p_queries,
              p_statements, p_text_rows>>

lockVars == <<k_conn, k_cmd, k_ops, k_held, k_new>>

vars == <<mainVars, queryVars, factoryVars, updateVars, exportVars, timeoutVars, historyVars,
          cipherVars, storeVars, formatVars, pageVars, lockVars>>

(***************************************************************************)
(* commands.rs: the commands that work on the connection in the slot.       *)
(***************************************************************************)
\* commands whose queries are scoped to the connection's current database
ScopedCmds == {"execute_query", "list_tables", "get_table_columns",
               "get_table_relationships", "update_cell", "export_database"}
\* commands that call the driver through match &*active { Some(conn) => ... }
UseCmds == ScopedCmds \cup {"list_databases", "change_database",
                            "get_current_database", "ping_connection"}
Commands == UseCmds \cup {"connect_to_database", "disconnect_from_database"}

\* A connection object.  variant "none" stands for None / no object.
\*   by                the invocation whose connect_to_database created it
\*   current_database  the drivers' current_database field
\*   client, client_db PostgresConnection.client: its name (1 or 2) and the
\*                     database that client is connected to
\*   clients           the Client objects made for this connection and not yet dropped
\*   client_lock       holder of PostgresConnection.client's mutex, 0 = free
\*   sessions          MariaDB: the database each pooled session has selected
\*   lastOk            the database of the last change_database that returned
\*                     Ok, initially the database connected to
NoConn == [variant |-> "none", by |-> 0, current_database |-> "", client |-> 0,
           client_db |-> "", clients |-> {}, client_lock |-> 0,
           sessions |-> [s \in Sessions |-> ""], lastOk |-> ""]

\* positions at which an invocation is inside a driver call on its connection
DriverPcs == {"m_get_conn", "m_pool", "m_query", "m_cd_use", "m_cd_set", "gcd",
              "pg_lock", "pg_query", "pg_create", "pg_swap", "pg_setdb", "disc"}

\* MariaDbConnection::new / PostgresConnection::new
NewConnection(v, d, p) ==
    [variant |-> v, by |-> p, current_database |-> d,
     client |-> IF v = "postgresql" THEN 1 ELSE 0,
     client_db |-> IF v = "postgresql" THEN d ELSE "",
     clients |-> IF v = "postgresql" THEN {1} ELSE {},
     client_lock |-> 0,
     sessions |-> [s \in Sessions |-> IF v = "mariadb" THEN d ELSE ""],
     lastOk |-> d]

\* the connection invocation p is calling
Conn(p) == IF hconn[p] = "own" THEN own[p] ELSE slot

MainInit ==
    /\ slot = NoConn
    /\ lock = 0
    /\ own = [p \in Procs |-> NoConn]
    /\ pc = [p \in Procs |-> "idle"]
    /\ cmd = [p \in Procs |-> "none"]
    /\ arg = [p \in Procs |-> ""]
    /\ hconn = [p \in Procs |-> "none"]
    /\ sess = [p \in Procs |-> 0]
    /\ newcl = [p \in Procs |-> 0]
    /\ res = [p \in Procs |-> "none"]
    /\ out = [p \in Procs |-> ""]
    /\ ranOn = [p \in Procs |-> ""]

Fail(p, code) ==
    /\ res' = [res EXCEPT ![p] = code]
    /\ pc' = [pc EXCEPT ![p] = "done"]

\* the codes create_connection fails with: an unsupported db_type, or what the
\* driver's new() propagates
CreateConnectionErrors == {"INVALID_DB_TYPE", "CONNECTION_ERROR", "SSL_ERROR"}

\* mutant of SlotWhileCreating: the slot is emptied before the connection is built
SlotEmptiedWhileCreating(s) == NoConn

\* what the slot holds when create_connection has returned: active_conn is
\* not reached before it, and map_err(..)? returns on its error
SlotWhileCreating(s) == s

\* connect_to_database is invoked: create_connection(...).await.map_err(..)? runs
\* before the slot lock is asked for
ConnectCreate(p) ==
    /\ pc[p] = "idle"
    /\ cmd' = [cmd EXCEPT ![p] = "connect_to_database"]
    /\ \/ /\ \E v \in Variants, d \in DBs : own' = [own EXCEPT ![p] = NewConnection(v, d, p)]
          /\ hconn' = [hconn EXCEPT ![p] = "own"]
          /\ pc' = [pc EXCEPT ![p] = "wait"]
          /\ UNCHANGED res
       \/ /\ \E code \in CreateConnectionErrors : Fail(p, code)
          /\ UNCHANGED <<own, hconn>>
    /\ slot' = SlotWhileCreating(slot)
    /\ UNCHANGED <<lock, arg, sess, newcl, out, ranOn>>

\* mutant of SlotLockFree: the lock is granted while another guard is alive
SlotLockIgnored == TRUE

\* tokio::sync::Mutex::lock: granted only while no other guard is alive
SlotLockFree == lock = 0

\* *active = Some(db_conn): what the slot holds after the assignment
StoreConnection(old, db_conn) == db_conn

\* connect_to_database: active_conn.lock().await; *active = Some(db_conn);
\* the Arc that was in the slot is dropped
ConnectStore(p) ==
    /\ pc[p] = "wait"
    /\ SlotLockFree
    /\ lock' = p
    /\ slot' = StoreConnection(slot, own[p])
    /\ own' = [own EXCEPT ![p] = NoConn]
    /\ hconn' = [hconn EXCEPT ![p] = "slot"]
    /\ res' = [res EXCEPT ![p] = "ok"]
    /\ pc' = [pc EXCEPT ![p] = "done"]
    /\ UNCHANGED <<cmd, arg, sess, newcl, out, ranOn>>

\* the first position of the driver method a command calls on conn
EntryPc(v, c) ==
    IF c = "disconnect_from_database" THEN "disc"
    ELSE IF c = "get_current_database" THEN "gcd"
    ELSE IF v = "mariadb"
         THEN (IF c = "change_database" THEN "m_cd_use"
               ELSE IF c = "list_databases" THEN "m_pool"
               ELSE "m_get_conn")
         ELSE (IF c = "change_database" THEN "pg_create" ELSE "pg_lock")

\* mutant of SlotAfterLook: disconnect_from_database borrows the connection too
SlotLeftInPlace(c, s) == s

\* mutant of SlotAfterLook: every command takes the connection out of the slot
SlotTakenByAll(c, s) == NoConn

\* what active holds once the command has looked at it: only
\* disconnect_from_database calls take(), every other command borrows
SlotAfterLook(c, s) == IF c = "disconnect_from_database" THEN NoConn ELSE s

\* a command on the live connection is invoked: active_conn.lock().await, then its
\* look at the slot (match &*active / active.take()); no await separates the two
AcquireSlot(p) ==
    /\ pc[p] = "idle"
    /\ SlotLockFree
    /\ lock' = p
    /\ \E c \in UseCmds \cup {"disconnect_from_database"}, d \in DBs :
        /\ c # "change_database" => d = CHOOSE x \in DBs : TRUE
        /\ cmd' = [cmd EXCEPT ![p] = c]
        /\ slot' = SlotAfterLook(c, slot)
        /\ IF slot = NoConn
           THEN /\ pc' = [pc EXCEPT ![p] = "done"]
                /\ res' = [res EXCEPT ![p] =
                             IF c = "disconnect_from_database" THEN "ok"
                             ELSE "No active connection"]
                /\ UNCHANGED <<hconn, own, arg>>
           ELSE /\ arg' = [arg EXCEPT ![p] = IF c = "change_database" THEN d ELSE ""]
                /\ hconn' = [hconn EXCEPT ![p] =
                               IF c = "disconnect_from_database" THEN "own" ELSE "slot"]
                /\ own' = [own EXCEPT ![p] =
                             IF c = "disconnect_from_database" THEN slot ELSE NoConn]
                /\ pc' = [pc EXCEPT ![p] = EntryPc(slot.variant, c)]
                /\ UNCHANGED res
    /\ UNCHANGED <<sess, newcl, out, ranOn>>

\* the driver methods below work on the connection in the slot (&self behind the
\* guard); UpdConn writes a changed connection object back
UpdConn(p, c) ==
    IF hconn[p] = "own"
    THEN own' = [own EXCEPT ![p] = c] /\ UNCHANGED slot
    ELSE slot' = c /\ UNCHANGED own

(***************************************************************************)
(* db/mariadb.rs: MariaDbConnection.                                        *)
(***************************************************************************)
\* mutant of UseDatabase: the USE statement is not issued
UseDatabaseSkipped(ss, s, d) == ss

\* conn.query_drop("USE db") on pooled session s
UseDatabase(ss, s, d) == [ss EXCEPT ![s] = d]

\* get_conn: read current_database, take a pooled session, USE the current database
MariaGetConn(p) ==
    /\ pc[p] = "m_get_conn"
    /\ \/ \E s \in Sessions :
            /\ UpdConn(p, [Conn(p) EXCEPT !.sessions =
                             UseDatabase(Conn(p).sessions, s, Conn(p).current_database)])
            /\ sess' = [sess EXCEPT ![p] = s]
            /\ pc' = [pc EXCEPT ![p] = "m_query"]
            /\ UNCHANGED res
       \/ /\ \E code \in {"CONNECTION_ERROR", "QUERY_ERROR"} : Fail(p, code)
          /\ UNCHANGED <<slot, own, sess>>
    /\ UNCHANGED <<lock, cmd, arg, hconn, newcl, out, ranOn>>

\* list_databases: self.pool.get_conn() without the USE
MariaPoolConn(p) ==
    /\ pc[p] = "m_pool"
    /\ \/ \E s \in Sessions :
            /\ sess' = [sess EXCEPT ![p] = s]
            /\ pc' = [pc EXCEPT ![p] = "m_query"]
            /\ UNCHANGED res
       \/ /\ Fail(p, "CONNECTION_ERROR")
          /\ UNCHANGED sess
    /\ UNCHANGED <<slot, lock, own, cmd, arg, hconn, newcl, out, ranOn>>

\* the queries of a MariaDB operation on the session get_conn returned; the SQL
\* of execute_query is the caller's and may itself hold a USE statement
MariaQuery(p) ==
    /\ pc[p] = "m_query"
    /\ ranOn' = [ranOn EXCEPT ![p] = Conn(p).sessions[sess[p]]]
    /\ \/ /\ res' = [res EXCEPT ![p] = "ok"]
          /\ IF cmd[p] = "execute_query"
             THEN \E d \in DBs :
                    UpdConn(p, [Conn(p) EXCEPT !.sessions =
                                  UseDatabase(Conn(p).sessions, sess[p], d)])
             ELSE UNCHANGED <<slot, own>>
       \/ /\ \E code \in {"QUERY_ERROR", "TIMEOUT_ERROR"} :
               res' = [res EXCEPT ![p] = code]
          /\ UNCHANGED <<slot, own>>
    /\ pc' = [pc EXCEPT ![p] = "done"]
    /\ UNCHANGED <<lock, cmd, arg, hconn, sess, newcl, out>>

\* mutant of ChangeFailed: the name is stored before the database is reached
ChangeFailedNamed(c, d) == [c EXCEPT !.current_database = d]

\* the connection when change_database(d) returns an error: the ? on
\* get_conn, on the USE statement and on create_client returns before the
\* client or current_database is written, and a USE that fails selects nothing
ChangeFailed(c, d) == c

\* change_database: pool.get_conn(), then USE database_name on that session
MariaChangeUse(p) ==
    /\ pc[p] = "m_cd_use"
    /\ \/ \E s \in Sessions :
            /\ UpdConn(p, [Conn(p) EXCEPT !.sessions =
                             UseDatabase(Conn(p).sessions, s, arg[p])])
            /\ sess' = [sess EXCEPT ![p] = s]
            /\ pc' = [pc EXCEPT ![p] = "m_cd_set"]
            /\ UNCHANGED res
       \/ /\ \E code \in {"CONNECTION_ERROR", "QUERY_ERROR"} : Fail(p, code)
          /\ UpdConn(p, ChangeFailed(Conn(p), arg[p]))
          /\ UNCHANGED sess
    /\ UNCHANGED <<lock, cmd, arg, hconn, newcl, out, ranOn>>

\* mutant of SetCurrentDatabase: the field keeps the old name
SetCurrentDatabaseSkipped(c, d) == c

\* *current_db = database_name.to_string()
SetCurrentDatabase(c, d) == [c EXCEPT !.current_database = d]

\* change_database: lock current_database and store the new name
MariaChangeSet(p) ==
    /\ pc[p] = "m_cd_set"
    /\ UpdConn(p, SetCurrentDatabase(Conn(p), arg[p]))
    /\ res' = [res EXCEPT ![p] = "ok"]
    /\ pc' = [pc EXCEPT ![p] = "done"]
    /\ UNCHANGED <<lock, cmd, arg, hconn, sess, newcl, out, ranOn>>

\* get_current_database (both drivers): lock current_database, clone it
GetCurrentDatabase(p) ==
    /\ pc[p] = "gcd"
    /\ out' = [out EXCEPT ![p] = Conn(p).current_database]
    /\ res' = [res EXCEPT ![p] = "ok"]
    /\ pc' = [pc EXCEPT ![p] = "done"]
    /\ UNCHANGED <<slot, lock, own, cmd, arg, hconn, sess, newcl, ranOn>>

(***************************************************************************)
(* db/postgresql.rs: PostgresConnection.                                    *)
(***************************************************************************)
\* let client = self.client.lock().await
PgLockClient(p) ==
    /\ pc[p] = "pg_lock"
    /\ Conn(p).client_lock = 0
    /\ UpdConn(p, [Conn(p) EXCEPT !.client_lock = p])
    /\ pc' = [pc EXCEPT ![p] = "pg_query"]
    /\ UNCHANGED <<lock, cmd, arg, hconn, sess, newcl, res, out, ranOn>>

\* the queries of a PostgreSQL operation on the locked client; the guard is
\* dropped when the method returns
PgQuery(p) ==
    /\ pc[p] = "pg_query"
    /\ ranOn' = [ranOn EXCEPT ![p] = Conn(p).client_db]
    /\ \E r \in {"ok", "QUERY_ERROR", "TIMEOUT_ERROR"} : res' = [res EXCEPT ![p] = r]
    /\ UpdConn(p, [Conn(p) EXCEPT !.client_lock = 0])
    /\ pc' = [pc EXCEPT ![p] = "done"]
    /\ UNCHANGED <<lock, cmd, arg, hconn, sess, newcl, out>>

\* the name of a Client created while the connection owns client cl
OtherClient(cl) == 3 - cl

\* change_database: Self::create_client(.., database_name, ..).await?
PgCreateClient(p) ==
    /\ pc[p] = "pg_create"
    /\ \/ /\ newcl' = [newcl EXCEPT ![p] = OtherClient(Conn(p).client)]
          /\ UpdConn(p, [Conn(p) EXCEPT !.clients = @ \cup {OtherClient(Conn(p).client)}])
          /\ pc' = [pc EXCEPT ![p] = "pg_swap"]
          /\ UNCHANGED res
       \/ /\ \E code \in {"CONNECTION_ERROR", "SSL_ERROR"} : Fail(p, code)
          /\ UpdConn(p, ChangeFailed(Conn(p), arg[p]))
          /\ UNCHANGED newcl
    /\ UNCHANGED <<lock, cmd, arg, hconn, sess, out, ranOn>>

\* *client = new_client: the connection's client is now the one connected to d,
\* and the Client it replaces is dropped
ReplaceClient(c, cl, d) ==
    [c EXCEPT !.client = cl, !.client_db = d, !.clients = @ \ {c.client}]

\* change_database: lock client, replace it
PgSwapClient(p) ==
    /\ pc[p] = "pg_swap"
    /\ Conn(p).client_lock = 0
    /\ UpdConn(p, [ReplaceClient(Conn(p), newcl[p], arg[p]) EXCEPT !.client_lock = p])
    /\ pc' = [pc EXCEPT ![p] = "pg_setdb"]
    /\ UNCHANGED <<lock, cmd, arg, hconn, sess, newcl, res, out, ranOn>>

\* change_database: lock current_database, store the name, return (both guards dropped)
PgSetDb(p) ==
    /\ pc[p] = "pg_setdb"
    /\ UpdConn(p, [SetCurrentDatabase(Conn(p), arg[p]) EXCEPT !.client_lock = 0])
    /\ res' = [res EXCEPT ![p] = "ok"]
    /\ pc' = [pc EXCEPT ![p] = "done"]
    /\ UNCHANGED <<lock, cmd, arg, hconn, sess, newcl, out, ranOn>>

\* mutant of DisconnectResults: the disconnect of either driver may fail
DisconnectResultsMayFail(variant) == {"ok", "CONNECTION_ERROR"}

\* what disconnect can return: the pool.disconnect() of MariaDB may fail and is
\* mapped to CONNECTION_ERROR, the disconnect of PostgreSQL is Ok(()) alone
DisconnectResults(variant) ==
    IF variant = "mariadb" THEN {"ok", "CONNECTION_ERROR"} ELSE {"ok"}

\* conn.disconnect().await.map_err(|e| e.message)? on the connection taken out
Disconnect(p) ==
    /\ pc[p] = "disc"
    /\ \E r \in DisconnectResults(Conn(p).variant) :
          res' = [res EXCEPT ![p] = r]
    /\ pc' = [pc EXCEPT ![p] = "done"]
    /\ UNCHANGED <<slot, lock, own, cmd, arg, hconn, sess, newcl, out, ranOn>>

\* the command returns: the slot guard is dropped, and with it whatever the
\* invocation still owns (the connection disconnect_from_database took out)
Return(p) ==
    /\ pc[p] = "done"
    /\ lock' = IF lock = p THEN 0 ELSE lock
    /\ slot' = IF cmd[p] = "change_database" /\ res[p] = "ok" /\ slot # NoConn
               THEN [slot EXCEPT !.lastOk = arg[p]] ELSE slot
    /\ own' = [own EXCEPT ![p] = NoConn]
    /\ pc' = [pc EXCEPT ![p] = "idle"]
    /\ cmd' = [cmd EXCEPT ![p] = "none"]
    /\ arg' = [arg EXCEPT ![p] = ""]
    /\ hconn' = [hconn EXCEPT ![p] = "none"]
    /\ sess' = [sess EXCEPT ![p] = 0]
    /\ newcl' = [newcl EXCEPT ![p] = 0]
    /\ res' = [res EXCEPT ![p] = "none"]
    /\ out' = [out EXCEPT ![p] = ""]
    /\ ranOn' = [ranOn EXCEPT ![p] = ""]

MainNext ==
    \E p \in Procs :
        \/ ConnectCreate(p)
        \/ ConnectStore(p)
        \/ AcquireSlot(p)
        \/ MariaGetConn(p)
        \/ MariaPoolConn(p)
        \/ MariaQuery(p)
        \/ MariaChangeUse(p)
        \/ MariaChangeSet(p)
        \/ GetCurrentDatabase(p)
        \/ PgLockClient(p)
        \/ PgQuery(p)
        \/ PgCreateClient(p)
        \/ PgSwapClient(p)
        \/ PgSetDb(p)
        \/ Disconnect(p)
        \/ Return(p)

(***************************************************************************)
(* Sequences of connect_to_database and disconnect_from_database, with the  *)
(* history of the disconnects that returned since the slot was last filled: *)
(* whether the slot held a connection, of which driver, and the result.     *)
(***************************************************************************)
MaxDisconnects == 3

DisconnectIdle == d_log = <<>>

\* the invocation of disconnect_from_database that returns in this step
Disconnecting(p) ==
    /\ cmd'[p] = "disconnect_from_database"
    /\ pc[p] # "done"
    /\ pc'[p] = "done"

DisconnectHistory ==
    d_log' =
        IF \E p \in Procs : pc[p] = "wait" /\ pc'[p] = "done"
        THEN <<>>
        ELSE IF \E p \in Procs : Disconnecting(p)
             THEN LET p == CHOOSE q \in Procs : Disconnecting(q)
                  IN Append(d_log, [had |-> pc[p] = "disc",
                                    variant |-> IF pc[p] = "disc" THEN own[p].variant
                                                ELSE "none",
                                    res |-> res'[p]])
             ELSE d_log

\* d_log as the record of the disconnect that returned an error since the
\* slot was last filled
FailedDisconnectHistory ==
    d_log' =
        IF \E p \in Procs : pc[p] = "wait" /\ pc'[p] = "done"
        THEN <<>>
        ELSE IF \E p \in Procs : Disconnecting(p) /\ res'[p] # "ok"
             THEN LET p == CHOOSE q \in Procs : Disconnecting(q)
                  IN <<[had |-> pc[p] = "disc", variant |-> own[p].variant, res |-> res'[p]]>>
             ELSE d_log

DisconnectNext ==
    /\ \E p \in Procs :
        \/ ConnectCreate(p)
        \/ ConnectStore(p)
        \/ /\ AcquireSlot(p)
           /\ cmd'[p] = "disconnect_from_database"
           /\ Len(d_log) < MaxDisconnects
        \/ Disconnect(p)
        \/ Return(p)
    /\ DisconnectHistory

(***************************************************************************)
(* execute_query: the row cap (db/connection.rs, both drivers).             *)
(***************************************************************************)
MAX_QUERY_ROWS == 10000

\* how far past the cap (and past zero) the engine's row counts go
RowsPastCap == 2

RowCounts == (0 .. RowsPastCap)
             \cup ((MAX_QUERY_ROWS - RowsPastCap) .. (MAX_QUERY_ROWS + RowsPastCap))

\* no execute_query call is modelled
QueryIdle ==
    /\ q_variant = "none"
    /\ q_engine = 0
    /\ q_pc = "idle"
    /\ q_fetched = 0
    /\ row_count = 0
    /\ truncated = FALSE
    /\ result_rows = <<>>
    /\ q_code = "none"

QueryInit ==
    /\ q_variant \in Variants
    /\ q_engine \in RowCounts
    /\ q_pc = "call"
    /\ q_fetched = 0
    /\ row_count = 0
    /\ truncated = FALSE
    /\ result_rows = <<>>
    /\ q_code = "none"

\* mariadb.rs: if row_count > MAX_QUERY_ROWS
MariaOverCap(n) == n > MAX_QUERY_ROWS

\* mariadb.rs execute_query: get_conn, then timeout(.., conn.query_iter(query))
MariaExecCall ==
    /\ q_pc = "call"
    /\ q_variant = "mariadb"
    /\ \/ q_pc' = "rows" /\ UNCHANGED q_code
       \/ /\ q_pc' = "err"
          /\ q_code' \in {"CONNECTION_ERROR", "QUERY_ERROR", "TIMEOUT_ERROR"}
    /\ UNCHANGED <<q_variant, q_engine, q_fetched, row_count, truncated, result_rows>>

\* mariadb.rs execute_query: one turn of while let Some(row) = result.next().await..?
MariaExecRow ==
    /\ q_pc = "rows"
    /\ q_fetched < q_engine
    /\ \/ /\ q_fetched' = q_fetched + 1
          /\ row_count' = row_count + 1
          /\ IF MariaOverCap(row_count + 1)
             THEN truncated' = TRUE /\ UNCHANGED result_rows
             ELSE result_rows' = Append(result_rows, q_fetched + 1) /\ UNCHANGED truncated
          /\ UNCHANGED <<q_pc, q_code>>
       \/ /\ q_pc' = "err"
          /\ q_code' = "QUERY_ERROR"
          /\ UNCHANGED <<q_fetched, row_count, truncated, result_rows>>
    /\ UNCHANGED <<q_variant, q_engine>>

\* mariadb.rs execute_query: the stream is exhausted, Ok(QueryResult {..})
MariaExecEnd ==
    /\ q_pc = "rows"
    /\ q_fetched = q_engine
    /\ q_pc' = "ok"
    /\ UNCHANGED <<q_variant, q_engine, q_fetched, row_count, truncated, result_rows, q_code>>

\* mutant of PgTruncated: the cap test is off by one
PgTruncatedOffByOne(total) == total >= MAX_QUERY_ROWS

\* postgresql.rs: let truncated = total_rows > MAX_QUERY_ROWS
PgTruncated(total) == total > MAX_QUERY_ROWS

\* postgresql.rs: rows_to_process
PgRowsToProcess(total) == IF PgTruncated(total) THEN MAX_QUERY_ROWS ELSE total

\* postgresql.rs execute_query: client.query returns every row, the first
\* rows_to_process of them are converted
PgExec ==
    /\ q_pc = "call"
    /\ q_variant = "postgresql"
    /\ \/ /\ q_pc' = "ok"
          /\ q_fetched' = q_engine
          /\ row_count' = q_engine
          /\ truncated' = PgTruncated(q_engine)
          /\ result_rows' = [i \in 1 .. PgRowsToProcess(q_engine) |-> i]
          /\ UNCHANGED q_code
       \/ /\ q_pc' = "err"
          /\ q_code' \in {"QUERY_ERROR", "TIMEOUT_ERROR"}
          /\ UNCHANGED <<q_fetched, row_count, truncated, result_rows>>
    /\ UNCHANGED <<q_variant, q_engine>>

QueryNext == MariaExecCall \/ MariaExecRow \/ MariaExecEnd \/ PgExec

(***************************************************************************)
(* create_connection: engine-kind resolution (db/factory.rs).               *)
(***************************************************************************)
\* the ASCII letters of the supported names, lower case -> upper case
AsciiUpper ==
    [c \in {"a", "b", "d", "e", "g", "i", "l", "m", "o", "p", "q", "r", "s", "t", "y"} |->
        CASE c = "a" -> "A" [] c = "b" -> "B" [] c = "d" -> "D" [] c = "e" -> "E"
          [] c = "g" -> "G" [] c = "i" -> "I" [] c = "l" -> "L" [] c = "m" -> "M"
          [] c = "o" -> "O" [] c = "p" -> "P" [] c = "q" -> "Q" [] c = "r" -> "R"
          [] c = "s" -> "S" [] c = "t" -> "T" [] c = "y" -> "Y"]

\* mutant of LowerChar: the match is made on db_type as given
LowerCharIdentity(c) == <<c>>

\* str::to_lowercase on one character: an upper-case ASCII letter becomes its
\* lower-case letter; U+0130 (capital I with dot above) becomes "i" followed
\* by U+0307; every other character of the inputs is its own lower case
LowerChar(c) ==
    IF \E l \in DOMAIN AsciiUpper : AsciiUpper[l] = c
    THEN <<CHOOSE l \in DOMAIN AsciiUpper : AsciiUpper[l] = c>>
    ELSE IF c = "U+0130" THEN <<"i", "U+0307">>
    ELSE <<c>>

RECURSIVE to_lowercase(_)
to_lowercase(s) == IF s = <<>> THEN <<>> ELSE LowerChar(Head(s)) \o to_lowercase(Tail(s))

MariaNames == {<<"m", "a", "r", "i", "a", "d", "b">>, <<"m", "y", "s", "q", "l">>}
PgNames == {<<"p", "o", "s", "t", "g", "r", "e", "s", "q", "l">>,
            <<"p", "o", "s", "t", "g", "r", "e", "s">>}

\* every spelling of w in upper and lower case letters
RECURSIVE CaseVariants(_)
CaseVariants(w) ==
    IF w = <<>> THEN {<<>>}
    ELSE {<<c>> \o t : c \in {Head(w), AsciiUpper[Head(w)]}, t \in CaseVariants(Tail(w))}

\* strings that name no supported engine
OtherNames ==
    { <<>>,
      <<"m", "o", "n", "g", "o", "d", "b">>,
      <<"s", "q", "l", "i", "t", "e">>,
      <<"o", "r", "a", "c", "l", "e">>,
      <<"m", "a", "r", "i", "a">>,
      <<"m", "a", "r", "i", "a", "d", "b", " ">>,
      <<" ", "m", "y", "s", "q", "l">>,
      <<"M", "y", " ", "S", "Q", "L">>,
      <<"p", "o", "s", "t", "g", "r", "e">>,
      <<"P", "O", "S", "T", "G", "R", "E", "S", "S">>,
      <<"p", "g", "s", "q", "l">>,
      <<"p", "g">>,
      <<"M", "A", "R", "U+0130", "A", "D", "B">>,
      <<"m", "a", "r", "i", "a", "_", "d", "b">> }

DbTypes ==
    UNION {CaseVariants(w) : w \in MariaNames \cup PgNames} \cup OtherNames

\* ssl_mode: the three modes and a string that is none of them
SslModes == {"disabled", "preferred", "required", "verify-full"}

\* no create_connection call is modelled
FactoryIdle ==
    /\ f_db_type = <<>>
    /\ f_pc = "idle"
    /\ f_variant = "none"
    /\ f_attempts = 0
    /\ f_code = "none"
    /\ f_ssl_mode = "none"
    /\ f_log = <<>>

FactoryInit ==
    /\ f_db_type \in DbTypes
    /\ f_pc = "call"
    /\ f_variant = "none"
    /\ f_attempts = 0
    /\ f_code = "none"
    /\ f_ssl_mode \in SslModes
    /\ f_log = <<>>

\* factory.rs create_connection: match db_type.to_lowercase().as_str()
CreateConnectionMatch ==
    /\ f_pc = "call"
    /\ LET name == to_lowercase(f_db_type) IN
        IF name \in MariaNames
        THEN f_pc' = "maria_new" /\ f_variant' = "mariadb" /\ UNCHANGED f_code
        ELSE IF name \in PgNames
        THEN f_pc' = "pg_new" /\ f_variant' = "postgresql" /\ UNCHANGED f_code
        ELSE f_pc' = "err" /\ f_code' = "INVALID_DB_TYPE" /\ UNCHANGED f_variant
    /\ UNCHANGED <<f_db_type, f_attempts, f_ssl_mode, f_log>>

\* if ssl_mode == "required" || ssl_mode == "preferred"
WantsSsl(ssl_mode) == ssl_mode = "required" \/ ssl_mode = "preferred"

\* one connection attempt: made by create_pool / create_client ("policy") or by
\* the verifying get_conn of MariaDbConnection::new ("verify")
Attempt(by, enc, ok) == [by |-> by, enc |-> enc, ok |-> ok]

\* the attempt was made and had the outcome ok
Attempted(by, enc, ok) ==
    /\ f_log' = Append(f_log, Attempt(by, enc, ok))
    /\ f_attempts' = f_attempts + 1

FactoryFail(code) == f_pc' = "err" /\ f_code' = code

\* mariadb.rs create_pool: the pool with SslOpts and its first get_conn
MariaCreatePoolSsl ==
    /\ f_pc = "maria_new"
    /\ WantsSsl(f_ssl_mode)
    /\ \/ Attempted("policy", TRUE, TRUE) /\ f_pc' = "maria_verify" /\ UNCHANGED f_code
       \/ /\ Attempted("policy", TRUE, FALSE)
          /\ IF f_ssl_mode = "required"
             THEN FactoryFail("SSL_ERROR")
             ELSE f_pc' = "maria_plain" /\ UNCHANGED f_code
    /\ UNCHANGED <<f_db_type, f_variant, f_ssl_mode>>

\* mariadb.rs create_pool: the pool without SslOpts and its first get_conn
MariaCreatePoolPlain ==
    /\ f_pc = "maria_plain" \/ (f_pc = "maria_new" /\ ~WantsSsl(f_ssl_mode))
    /\ \/ Attempted("policy", FALSE, TRUE) /\ f_pc' = "maria_verify" /\ UNCHANGED f_code
       \/ Attempted("policy", FALSE, FALSE) /\ FactoryFail("CONNECTION_ERROR")
    /\ UNCHANGED <<f_db_type, f_variant, f_ssl_mode>>

\* mariadb.rs MariaDbConnection::new: the verifying pool.get_conn(); the pool
\* hands out its idle connection or opens another one with the same options
MariaVerifyConn ==
    /\ f_pc = "maria_verify"
    /\ LET enc == f_log[Len(f_log)].enc IN
        \/ f_pc' = "ok" /\ UNCHANGED <<f_code, f_log, f_attempts>>
        \/ Attempted("verify", enc, TRUE) /\ f_pc' = "ok" /\ UNCHANGED f_code
        \/ Attempted("verify", enc, FALSE) /\ FactoryFail("CONNECTION_ERROR")
    /\ UNCHANGED <<f_db_type, f_variant, f_ssl_mode>>

\* postgresql.rs create_client: the TlsConnector is built, then connect with it
PgCreateClientTls ==
    /\ f_pc = "pg_new"
    /\ WantsSsl(f_ssl_mode)
    /\ \/ FactoryFail("TLS_ERROR") /\ UNCHANGED <<f_log, f_attempts>>
       \/ Attempted("policy", TRUE, TRUE) /\ f_pc' = "ok" /\ UNCHANGED f_code
       \/ /\ Attempted("policy", TRUE, FALSE)
          /\ IF f_ssl_mode = "required"
             THEN FactoryFail("SSL_ERROR")
             ELSE f_pc' = "pg_plain" /\ UNCHANGED f_code
    /\ UNCHANGED <<f_db_type, f_variant, f_ssl_mode>>

\* postgresql.rs create_client: connect with NoTls
PgCreateClientPlain ==
    /\ f_pc = "pg_plain" \/ (f_pc = "pg_new" /\ ~WantsSsl(f_ssl_mode))
    /\ \/ Attempted("policy", FALSE, TRUE) /\ f_pc' = "ok" /\ UNCHANGED f_code
       \/ Attempted("policy", FALSE, FALSE) /\ FactoryFail("CONNECTION_ERROR")
    /\ UNCHANGED <<f_db_type, f_variant, f_ssl_mode>>

FactoryNext ==
    \/ CreateConnectionMatch
    \/ MariaCreatePoolSsl
    \/ MariaCreatePoolPlain
    \/ MariaVerifyConn
    \/ PgCreateClientTls
    \/ PgCreateClientPlain

(***************************************************************************)
(* update_cell (db/mariadb.rs, db/postgresql.rs).                           *)
(* A text is a sequence of pieces: the fragments of a format string are one *)
(* piece each, what is interpolated into it is one piece per character.     *)
(***************************************************************************)
\* str::replace of one character by a text
RECURSIVE Replace(_, _, _)
Replace(s, from, to) ==
    IF s = <<>> THEN <<>>
    ELSE (IF Head(s) = from THEN to ELSE <<Head(s)>>) \o Replace(Tail(s), from, to)

\* the backtick character, written by its code point
Backtick == "U+0060"

\* mariadb.rs escape_identifier: every backtick is doubled
MariaEscapeIdentifier(name) == Replace(name, Backtick, <<Backtick, Backtick>>)

\* mariadb.rs escape_string: every single quote is doubled, then every backslash
MariaEscapeString(value) == Replace(Replace(value, "'", <<"'", "'">>), "\\", <<"\\", "\\">>)

\* postgresql.rs escape_identifier: every double quote is doubled
PgEscapeIdentifier(name) == Replace(name, "\"", <<"\"", "\"">>)

\* postgresql.rs escape_string: every single quote is doubled
PgEscapeString(value) == Replace(value, "'", <<"'", "'">>)

None == [some |-> FALSE, v |-> <<>>]
Some(v) == [some |-> TRUE, v |-> v]

TableNames == {<<"t">>}
ColumnNames == {<<"c">>, <<"c", Backtick>>, <<"c", "\"">>}
KeyColumns == {<<"i", "d">>}
NewValues == {<<>>, <<"x">>, <<"x", "'", "x">>, <<"x", "\\">>}
KeyValues == {<<"7">>, <<"7", "'">>}

UpdateRequests ==
    [table_name : TableNames, column_name : ColumnNames,
     new_value : {None} \cup {Some(v) : v \in NewValues},
     primary_key_column : KeyColumns, primary_key_value : KeyValues]

\* the command has not returned
NoResult == [returned |-> FALSE]

\* no update_cell call is modelled
UpdateIdle ==
    /\ u_variant = "none"
    /\ u_req = [table_name |-> <<>>, column_name |-> <<>>, new_value |-> None,
                primary_key_column |-> <<>>, primary_key_value |-> <<>>]
    /\ u_pc = "idle"
    /\ u_sql = <<>>
    /\ u_params = <<>>
    /\ u_sent = FALSE
    /\ u_ret = <<>>
    /\ u_code = "none"
    /\ u_result = NoResult

\* u_variant "none": the slot holds no connection
UpdateInit ==
    /\ u_variant \in Variants \cup {"none"}
    /\ u_req \in UpdateRequests
    /\ u_pc = "call"
    /\ u_sql = <<>>
    /\ u_params = <<>>
    /\ u_sent = FALSE
    /\ u_ret = <<>>
    /\ u_code = "none"
    /\ u_result = NoResult

\* mariadb.rs update_cell: logged_query, the statement with the values written out
MariaLoggedQuery(r) ==
    IF r.new_value.some
    THEN <<"UPDATE ", Backtick>> \o MariaEscapeIdentifier(r.table_name)
         \o <<Backtick, " SET ", Backtick>> \o MariaEscapeIdentifier(r.column_name)
         \o <<Backtick, " = '">> \o MariaEscapeString(r.new_value.v)
         \o <<"' WHERE ", Backtick>> \o MariaEscapeIdentifier(r.primary_key_column)
         \o <<Backtick, " = '">> \o MariaEscapeString(r.primary_key_value) \o <<"'">>
    ELSE <<"UPDATE ", Backtick>> \o MariaEscapeIdentifier(r.table_name)
         \o <<Backtick, " SET ", Backtick>> \o MariaEscapeIdentifier(r.column_name)
         \o <<Backtick, " = NULL WHERE ", Backtick>> \o MariaEscapeIdentifier(r.primary_key_column)
         \o <<Backtick, " = '">> \o MariaEscapeString(r.primary_key_value) \o <<"'">>

\* mariadb.rs update_cell: query, the statement given to exec_drop
MariaUpdateQuery(r) ==
    IF r.new_value.some
    THEN <<"UPDATE ", Backtick>> \o MariaEscapeIdentifier(r.table_name)
         \o <<Backtick, " SET ", Backtick>> \o MariaEscapeIdentifier(r.column_name)
         \o <<Backtick, " = ? WHERE ", Backtick>> \o MariaEscapeIdentifier(r.primary_key_column)
         \o <<Backtick, " = ?">>
    ELSE <<"UPDATE ", Backtick>> \o MariaEscapeIdentifier(r.table_name)
         \o <<Backtick, " SET ", Backtick>> \o MariaEscapeIdentifier(r.column_name)
         \o <<Backtick, " = NULL WHERE ", Backtick>> \o MariaEscapeIdentifier(r.primary_key_column)
         \o <<Backtick, " = ?">>

\* mariadb.rs update_cell: the parameter tuple given to exec_drop
MariaUpdateParams(r) ==
    IF r.new_value.some THEN <<r.new_value.v, r.primary_key_value>>
    ELSE <<r.primary_key_value>>

\* postgresql.rs update_cell: query, the statement given to simple_query
PgUpdateQuery(r) ==
    IF r.new_value.some
    THEN <<"UPDATE \"">> \o PgEscapeIdentifier(r.table_name)
         \o <<"\" SET \"">> \o PgEscapeIdentifier(r.column_name)
         \o <<"\" = '">> \o PgEscapeString(r.new_value.v)
         \o <<"' WHERE \"">> \o PgEscapeIdentifier(r.primary_key_column)
         \o <<"\" = '">> \o PgEscapeString(r.primary_key_value) \o <<"'">>
    ELSE <<"UPDATE \"">> \o PgEscapeIdentifier(r.table_name)
         \o <<"\" SET \"">> \o PgEscapeIdentifier(r.column_name)
         \o <<"\" = NULL WHERE \"">> \o PgEscapeIdentifier(r.primary_key_column)
         \o <<"\" = '">> \o PgEscapeString(r.primary_key_value) \o <<"'">>

\* mariadb.rs update_cell: self.get_conn().await?
MariaUpdateGetConn ==
    /\ u_pc = "call"
    /\ u_variant = "mariadb"
    /\ \/ u_pc' = "exec" /\ UNCHANGED u_code
       \/ u_pc' = "err" /\ u_code' \in {"CONNECTION_ERROR", "QUERY_ERROR"}
    /\ UNCHANGED <<u_variant, u_req, u_sql, u_params, u_sent, u_ret>>

\* mariadb.rs update_cell: timeout(.., conn.exec_drop(&query, params)), Ok(logged_query)
MariaUpdateExec ==
    /\ u_pc = "exec"
    /\ u_variant = "mariadb"
    /\ u_sql' = MariaUpdateQuery(u_req)
    /\ u_params' = MariaUpdateParams(u_req)
    /\ u_sent' = TRUE
    /\ \/ u_pc' = "ok" /\ u_ret' = MariaLoggedQuery(u_req) /\ UNCHANGED u_code
       \/ /\ u_pc' = "err"
          /\ u_code' \in {"TIMEOUT_ERROR", "QUERY_ERROR"}
          /\ UNCHANGED u_ret
    /\ UNCHANGED <<u_variant, u_req>>

\* postgresql.rs update_cell: self.client.lock().await
PgUpdateLock ==
    /\ u_pc = "call"
    /\ u_variant = "postgresql"
    /\ u_pc' = "exec"
    /\ UNCHANGED <<u_variant, u_req, u_sql, u_params, u_sent, u_ret, u_code>>

\* postgresql.rs update_cell: timeout(.., client.simple_query(&query)), Ok(())
PgUpdateExec ==
    /\ u_pc = "exec"
    /\ u_variant = "postgresql"
    /\ u_sql' = PgUpdateQuery(u_req)
    /\ u_params' = <<>>
    /\ u_sent' = TRUE
    /\ \/ u_pc' = "ok" /\ UNCHANGED u_code
       \/ u_pc' = "err" /\ u_code' \in {"TIMEOUT_ERROR", "QUERY_ERROR", "22P02"}
    /\ UNCHANGED <<u_variant, u_req, u_ret>>

\* the driver's part of an update
DriverUpdateNext == MariaUpdateGetConn \/ MariaUpdateExec \/ PgUpdateLock \/ PgUpdateExec

\* commands.rs UpdateCellError: the QueryError of the driver with table and column
UpdateCellError(code, detail, hint) ==
    [message |-> "message", code |-> code, detail |-> detail, hint |-> hint,
     table |-> u_req.table_name, column |-> u_req.column_name]

\* commands.rs update_cell: Ok(executed_query) => success, executed_query: Some(..)
UpdateCellOk ==
    /\ u_pc = "ok"
    /\ u_result' = [returned |-> TRUE, success |-> TRUE, error |-> None,
                    executed_query |-> Some(u_ret)]
    /\ u_pc' = "done"
    /\ UNCHANGED <<u_variant, u_req, u_sql, u_params, u_sent, u_ret, u_code>>

\* commands.rs update_cell: Err(e) => success false, error: Some(UpdateCellError);
\* detail and hint are those of the QueryError: never set by the MariaDB driver,
\* set by the PostgreSQL driver for its timeout (hint) and from the engine's error
UpdateCellErr ==
    /\ u_pc = "err"
    /\ \E detail \in BOOLEAN, hint \in BOOLEAN :
          /\ u_variant = "mariadb" => ~detail /\ ~hint
          /\ u_code = "TIMEOUT_ERROR" /\ u_variant = "postgresql" => ~detail /\ hint
          /\ u_result' = [returned |-> TRUE, success |-> FALSE,
                          error |-> Some(UpdateCellError(u_code, detail, hint)),
                          executed_query |-> None]
    /\ u_pc' = "done"
    /\ UNCHANGED <<u_variant, u_req, u_sql, u_params, u_sent, u_ret, u_code>>

\* commands.rs update_cell: None => success false, code NO_CONNECTION
UpdateCellNoConnection ==
    /\ u_pc = "call"
    /\ u_variant = "none"
    /\ u_result' = [returned |-> TRUE, success |-> FALSE,
                    error |-> Some(UpdateCellError("NO_CONNECTION", FALSE, TRUE)),
                    executed_query |-> None]
    /\ u_pc' = "done"
    /\ UNCHANGED <<u_variant, u_req, u_sql, u_params, u_sent, u_ret, u_code>>

UpdateNext ==
    \/ DriverUpdateNext /\ UNCHANGED u_result
    \/ UpdateCellOk
    \/ UpdateCellErr
    \/ UpdateCellNoConnection

(***************************************************************************)
(* export_database (commands.rs) and export_database_with_options of the    *)
(* two drivers.  sql_content is kept as the sequence of the statements      *)
(* pushed to it; an INSERT statement carries the rows it lists.             *)
(***************************************************************************)
BATCH_SIZE == 10000

\* the largest table and the largest max_insert_size of the exports explored
MaxTableRows == 2
MaxInsertSize == 2

\* the tables of the connected database, in the order the engine lists them
EngineTables == <<"a", "b">>
TableSet == {EngineTables[i] : i \in DOMAIN EngineTables}

\* selected_tables: none, some, all, reordered, repeated, unknown to the engine
Selections ==
    {<<>>, <<"a">>, <<"b">>, <<"a", "b">>, <<"b", "a">>, <<"a", "a">>, <<"zz">>, <<"b", "zz">>}

DataModes == {"no_data", "insert", "replace", "insert_ignore"}

ExportOptions ==
    [include_drop : BOOLEAN, include_create : BOOLEAN, data_mode : DataModes,
     selected_tables : Selections, max_insert_size : 0 .. MaxInsertSize]

NoReturn == [returned |-> FALSE, ok |-> FALSE, sql |-> <<>>, code |-> "none"]
NoFile == [written |-> FALSE, content |-> <<>>]

\* one pushed piece of sql_content
Statement(kind, table, rows) == [kind |-> kind, table |-> table, rows |-> rows]

\* no export is modelled
ExportIdle ==
    /\ e_variant = "none"
    /\ e_opts = [include_drop |-> FALSE, include_create |-> FALSE, data_mode |-> "no_data",
                 selected_tables |-> <<>>, max_insert_size |-> 0]
    /\ e_rows = [t \in TableSet |-> 0]
    /\ e_pc = "idle"
    /\ sql_content = <<>>
    /\ tables_to_export = <<>>
    /\ e_table = ""
    /\ offset = 0
    /\ e_page_len = 0
    /\ e_next = 0
    /\ rows_in_batch = 0
    /\ row_buffer = <<>>
    /\ e_queries = 0
    /\ e_page_queries = 0
    /\ e_failed_at = "none"
    /\ e_fail_queries = 0
    /\ e_ret = NoReturn
    /\ e_file = NoFile

\* the locals of an export that is about to be called
ExportStart ==
    /\ e_pc = "call"
    /\ sql_content = <<>>
    /\ tables_to_export = <<>>
    /\ e_table = ""
    /\ offset = 0
    /\ e_page_len = 0
    /\ e_next = 0
    /\ rows_in_batch = 0
    /\ row_buffer = <<>>
    /\ e_queries = 0
    /\ e_page_queries = 0
    /\ e_failed_at = "none"
    /\ e_fail_queries = 0
    /\ e_ret = NoReturn
    /\ e_file = NoFile

ExportInit ==
    /\ e_variant \in Variants
    /\ e_opts \in ExportOptions
    /\ e_rows \in [TableSet -> 0 .. MaxTableRows]
    /\ ExportStart

\* the largest table and max_insert_size of the exports explored for batching
MaxBatchRows == 7
MaxBatchInsert == 3

\* exports of a larger table "a", with data, with max_insert_size >= 1
BatchInit ==
    /\ e_variant \in Variants
    /\ e_opts \in [include_drop : {FALSE}, include_create : BOOLEAN,
                   data_mode : {"insert", "replace"},
                   selected_tables : {<<>>, <<"a">>},
                   max_insert_size : 1 .. MaxBatchInsert]
    /\ e_rows \in {[t \in TableSet |-> IF t = "a" THEN n ELSE k] :
                      n \in 0 .. MaxBatchRows, k \in 0 .. 1}
    /\ ExportStart

\* mutant of OnQueryError: a failed data page ends the table's data, not the export
OnQueryErrorSkipsTable(at) == IF at \in {"page", "row"} THEN "table" ELSE "err"

\* the ? after every query of export_database_with_options: return Err(..)
OnQueryError(at) == "err"

\* query number q, issued as step at, failed with code
ExportFail(at, q, code) ==
    /\ e_failed_at' = at
    /\ e_queries' = q
    /\ e_fail_queries' = q
    /\ e_pc' = OnQueryError(at)
    /\ IF OnQueryError(at) = "err"
       THEN /\ e_ret' = [returned |-> TRUE, ok |-> FALSE, sql |-> <<>>, code |-> code]
            /\ sql_content' = <<>>
            /\ tables_to_export' = <<>>
            /\ e_table' = ""
       ELSE UNCHANGED <<e_ret, sql_content, tables_to_export, e_table>>
    /\ offset' = 0
    /\ e_page_len' = 0
    /\ e_next' = 0
    /\ rows_in_batch' = 0
    /\ row_buffer' = <<>>
    /\ UNCHANGED <<exportConfig, e_file>>

\* mariadb.rs export_database_with_options: let mut conn = self.get_conn().await?
\* (pool.get_conn, then the USE of the current database)
MariaExportGetConn ==
    /\ e_pc = "call"
    /\ e_variant = "mariadb"
    /\ \/ /\ e_pc' = "tables"
          /\ e_queries' = e_queries + 1
          /\ UNCHANGED <<exportConfig, sql_content, tables_to_export, e_table, exportLoop,
                         e_failed_at, e_fail_queries, e_ret, e_file>>
       \/ ExportFail("get_conn", e_queries, "CONNECTION_ERROR")
       \/ ExportFail("use", e_queries + 1, "QUERY_ERROR")
    /\ UNCHANGED e_page_queries

\* postgresql.rs export_database_with_options: let client = self.client.lock().await
PgExportLockClient ==
    /\ e_pc = "call"
    /\ e_variant = "postgresql"
    /\ e_pc' = "tables"
    /\ UNCHANGED <<exportConfig, sql_content, tables_to_export, e_table, exportLoop,
                   e_queries, e_page_queries, e_failed_at, e_fail_queries, e_ret, e_file>>

\* mutant of TablesToExport: a selection is put into the engine's order
TablesToExportInEngineOrder(selected_tables, enumerated) ==
    IF selected_tables = <<>> THEN enumerated
    ELSE SelectSeq(enumerated,
                   LAMBDA t : \E i \in DOMAIN selected_tables : selected_tables[i] = t)

\* tables_to_export: the enumerated tables if selected_tables.is_empty(),
\* else selected_tables.to_vec()
TablesToExport(selected_tables, enumerated) ==
    IF selected_tables = <<>> THEN enumerated ELSE selected_tables

\* export_database_with_options: let tables_to_export = ..; SHOW TABLES, or the
\* information_schema.tables query ordered by table_name, only for an empty selection
ExportTables ==
    /\ e_pc = "tables"
    /\ IF e_opts.selected_tables = <<>>
       THEN \/ /\ tables_to_export' = TablesToExport(e_opts.selected_tables, EngineTables)
               /\ e_queries' = e_queries + 1
               /\ e_pc' = "table"
               /\ UNCHANGED <<exportConfig, sql_content, e_table, exportLoop,
                              e_failed_at, e_fail_queries, e_ret, e_file>>
            \/ ExportFail("tables", e_queries + 1, "QUERY_ERROR")
       ELSE /\ tables_to_export' = TablesToExport(e_opts.selected_tables, EngineTables)
            /\ e_pc' = "table"
            /\ UNCHANGED <<exportConfig, sql_content, e_table, exportLoop, e_queries,
                           e_failed_at, e_fail_queries, e_ret, e_file>>
    /\ UNCHANGED e_page_queries

\* mutant of WantsData: row data is exported whatever the data mode
WantsDataAlways(data_mode) == TRUE

\* if data_mode != "no_data"
WantsData(data_mode) == data_mode # "no_data"

\* where a table's turn goes on after its CREATE part
AfterCreate == IF WantsData(e_opts.data_mode) THEN "page" ELSE "table"

\* for table_name in tables_to_export: the header comment and the DROP statement
ExportTableHead ==
    /\ e_pc = "table"
    /\ tables_to_export # <<>>
    /\ LET t == Head(tables_to_export) IN
        /\ e_table' = t
        /\ sql_content' = sql_content \o <<Statement("comment", t, <<>>)>>
                          \o (IF e_opts.include_drop THEN <<Statement("drop", t, <<>>)>> ELSE <<>>)
    /\ tables_to_export' = Tail(tables_to_export)
    /\ e_pc' = IF e_opts.include_create THEN "create" ELSE AfterCreate
    /\ offset' = 0
    /\ UNCHANGED <<exportConfig, e_page_len, e_next, rows_in_batch, row_buffer,
                   e_queries, e_page_queries, e_failed_at, e_fail_queries, e_ret, e_file>>

\* if include_create: SHOW CREATE TABLE and its one row (MariaDB; the query
\* fails for a table the engine does not have), or the information_schema.columns
\* query and the column-by-column CREATE TABLE (PostgreSQL; no column rows for a
\* table the engine does not have)
ExportCreate ==
    /\ e_pc = "create"
    /\ \/ /\ e_variant = "mariadb" => e_table \in TableSet
          /\ sql_content' = Append(sql_content, Statement("create", e_table, <<>>))
          /\ e_queries' = e_queries + 1
          /\ e_pc' = AfterCreate
          /\ UNCHANGED <<exportConfig, tables_to_export, e_table, exportLoop,
                         e_failed_at, e_fail_queries, e_ret, e_file>>
       \/ ExportFail("create", e_queries + 1, "QUERY_ERROR")
    /\ UNCHANGED e_page_queries

\* rows the engine returns for SELECT * FROM t LIMIT BATCH_SIZE OFFSET off
PageLen(t, off) ==
    IF e_rows[t] <= off THEN 0
    ELSE IF e_rows[t] - off >= BATCH_SIZE THEN BATCH_SIZE ELSE e_rows[t] - off

\* the data query of one turn of loop { .. }; PostgreSQL breaks on an empty page
ExportPage ==
    /\ e_pc = "page"
    /\ e_page_queries' = e_page_queries + 1
    /\ \/ /\ e_table \in TableSet
          /\ e_queries' = e_queries + 1
          /\ e_page_len' = PageLen(e_table, offset)
          /\ e_next' = 0
          /\ rows_in_batch' = 0
          /\ row_buffer' = <<>>
          /\ IF e_variant = "postgresql" /\ PageLen(e_table, offset) = 0
             THEN /\ sql_content' = Append(sql_content, Statement("newline", e_table, <<>>))
                  /\ e_pc' = "table"
             ELSE /\ e_pc' = "rows"
                  /\ UNCHANGED sql_content
          /\ UNCHANGED <<exportConfig, tables_to_export, e_table, offset,
                         e_failed_at, e_fail_queries, e_ret, e_file>>
       \/ ExportFail("page", e_queries + 1, "QUERY_ERROR")

\* mutant of BufferFull: the buffer may grow one row past max_insert_size
BufferFullLate(buffer, max_insert_size) == Len(buffer) > max_insert_size

\* if row_buffer.len() >= max_insert_size
BufferFull(buffer, max_insert_size) == Len(buffer) >= max_insert_size

\* one turn of the row loop: the row is buffered, and the buffer is written as
\* one statement once row_buffer.len() >= max_insert_size; the MariaDB stream
\* can fail at every row
ExportRow ==
    /\ e_pc = "rows"
    /\ e_next < e_page_len
    /\ \/ LET buffer == Append(row_buffer, offset + e_next + 1) IN
            /\ e_next' = e_next + 1
            /\ rows_in_batch' = rows_in_batch + 1
            /\ IF BufferFull(buffer, e_opts.max_insert_size)
               THEN /\ sql_content' = Append(sql_content, Statement("insert", e_table, buffer))
                    /\ row_buffer' = <<>>
               ELSE /\ row_buffer' = buffer
                    /\ UNCHANGED sql_content
            /\ UNCHANGED <<exportConfig, e_pc, tables_to_export, e_table, offset, e_page_len,
                           e_queries, e_failed_at, e_fail_queries, e_ret, e_file>>
       \/ /\ e_variant = "mariadb"
          /\ ExportFail("row", e_queries, "QUERY_ERROR")
    /\ UNCHANGED e_page_queries

\* after the row loop: the rest of the buffer is written, then break after a
\* short page, else offset += BATCH_SIZE
ExportPageEnd ==
    /\ e_pc = "rows"
    /\ e_next = e_page_len
    /\ LET flushed == IF row_buffer # <<>>
                      THEN Append(sql_content, Statement("insert", e_table, row_buffer))
                      ELSE sql_content
       IN IF rows_in_batch < BATCH_SIZE
          THEN /\ sql_content' = Append(flushed, Statement("newline", e_table, <<>>))
               /\ e_pc' = "table"
               /\ UNCHANGED offset
          ELSE /\ sql_content' = flushed
               /\ e_pc' = "page"
               /\ offset' = offset + BATCH_SIZE
    /\ row_buffer' = <<>>
    /\ UNCHANGED <<exportConfig, tables_to_export, e_table, e_page_len, e_next, rows_in_batch,
                   e_queries, e_page_queries, e_failed_at, e_fail_queries, e_ret, e_file>>

\* Ok(sql_content)
ExportReturnOk ==
    /\ e_pc = "table"
    /\ tables_to_export = <<>>
    /\ e_ret' = [returned |-> TRUE, ok |-> TRUE, sql |-> sql_content, code |-> "none"]
    /\ e_pc' = "ok"
    /\ UNCHANGED <<exportConfig, sql_content, tables_to_export, e_table, exportLoop,
                   e_queries, e_page_queries, e_failed_at, e_fail_queries, e_file>>

\* commands.rs export_database: tokio::fs::write(&file_path, sql_content)
ExportWriteFile ==
    /\ e_pc = "ok"
    /\ \/ e_file' = [written |-> TRUE, content |-> e_ret.sql] /\ e_pc' = "written"
       \/ e_pc' = "write_failed" /\ UNCHANGED e_file
    /\ UNCHANGED <<exportConfig, sql_content, tables_to_export, e_table, exportLoop,
                   e_queries, e_page_queries, e_failed_at, e_fail_queries, e_ret>>

\* commands.rs export_database: .map_err(|e| e.message)?
ExportReturnErr ==
    /\ e_pc = "err"
    /\ e_pc' = "failed"
    /\ UNCHANGED <<exportConfig, sql_content, tables_to_export, e_table, exportLoop,
                   e_queries, e_page_queries, e_failed_at, e_fail_queries, e_ret, e_file>>

ExportNext ==
    \/ MariaExportGetConn
    \/ PgExportLockClient
    \/ ExportTables
    \/ ExportTableHead
    \/ ExportCreate
    \/ ExportPage
    \/ ExportRow
    \/ ExportPageEnd
    \/ ExportReturnOk
    \/ ExportWriteFile
    \/ ExportReturnErr

(***************************************************************************)
(* Query timeouts.  Every place where a driver sends a query to the engine  *)
(* is a query site: the driver, the operation, the source line of the call, *)
(* whether the call is wrapped in timeout(DEFAULT_QUERY_TIMEOUT, ..), and   *)
(* the code the driver gives to a failure the engine reports.               *)
(***************************************************************************)
DEFAULT_QUERY_TIMEOUT == 30
LateSeconds == 2

QuerySite(variant, op, line, guarded, code) ==
    [variant |-> variant, op |-> op, line |-> line, guarded |-> guarded, code |-> code]

MariaQuerySites ==
    { QuerySite("mariadb", "get_conn", 135, FALSE, "QUERY_ERROR"),
      QuerySite("mariadb", "test_connection", 241, TRUE, "CONNECTION_ERROR"),
      QuerySite("mariadb", "execute_query", 261, TRUE, "QUERY_ERROR"),
      QuerySite("mariadb", "list_tables", 321, TRUE, "QUERY_ERROR"),
      QuerySite("mariadb", "list_databases", 356, TRUE, "QUERY_ERROR"),
      QuerySite("mariadb", "change_database", 393, FALSE, "QUERY_ERROR"),
      QuerySite("mariadb", "get_table_columns", 439, TRUE, "QUERY_ERROR"),
      QuerySite("mariadb", "get_table_relationships", 536, TRUE, "QUERY_ERROR"),
      QuerySite("mariadb", "update_cell", 629, TRUE, "QUERY_ERROR"),
      QuerySite("mariadb", "update_cell", 653, TRUE, "QUERY_ERROR"),
      QuerySite("mariadb", "export_database_with_options", 687, FALSE, "QUERY_ERROR"),
      QuerySite("mariadb", "export_database_with_options", 724, FALSE, "QUERY_ERROR"),
      QuerySite("mariadb", "export_database_with_options", 757, FALSE, "QUERY_ERROR") }

\* update_cell reports the SQLSTATE of the engine where there is one
PgQuerySites ==
    { QuerySite("postgresql", "test_connection", 381, TRUE, "CONNECTION_ERROR"),
      QuerySite("postgresql", "execute_query", 401, TRUE, "QUERY_ERROR"),
      QuerySite("postgresql", "list_tables", 460, TRUE, "QUERY_ERROR"),
      QuerySite("postgresql", "list_databases", 488, TRUE, "QUERY_ERROR"),
      QuerySite("postgresql", "get_table_columns", 563, TRUE, "QUERY_ERROR"),
      QuerySite("postgresql", "get_table_relationships", 614, TRUE, "QUERY_ERROR"),
      QuerySite("postgresql", "update_cell", 686, TRUE, "SQLSTATE"),
      QuerySite("postgresql", "export_database_with_options", 713, FALSE, "QUERY_ERROR"),
      QuerySite("postgresql", "export_database_with_options", 748, FALSE, "QUERY_ERROR"),
      QuerySite("postgresql", "export_database_with_options", 808, FALSE, "QUERY_ERROR") }

QuerySites == MariaQuerySites \cup PgQuerySites

NoSite == QuerySite("none", "none", 0, FALSE, "none")

TimeoutIdle ==
    /\ t_site = NoSite
    /\ t_clock = 0
    /\ t_engine = "pending"
    /\ t_ret = "none"

\* the driver has just sent the query of one of its sites
TimeoutInit ==
    /\ t_site \in QuerySites
    /\ t_clock = 0
    /\ t_engine = "pending"
    /\ t_ret = "none"

\* the deadline of timeout(DEFAULT_QUERY_TIMEOUT, ..) has passed
Elapsed == t_clock >= DEFAULT_QUERY_TIMEOUT

\* whether the call of the site is wrapped in timeout(DEFAULT_QUERY_TIMEOUT, ..)
Guarded(site) == site.guarded

\* a second passes while the driver waits; a guarded wait ends at its deadline
Tick ==
    /\ t_ret = "none"
    /\ IF Guarded(t_site) THEN ~Elapsed ELSE t_clock < DEFAULT_QUERY_TIMEOUT + LateSeconds
    /\ t_clock' = t_clock + 1
    /\ UNCHANGED <<t_site, t_engine, t_ret>>

\* the engine answers and the awaited call completes with its result
EngineOk ==
    /\ t_ret = "none"
    /\ Guarded(t_site) => ~Elapsed
    /\ t_engine' = "ok"
    /\ t_ret' = "ok"
    /\ UNCHANGED <<t_site, t_clock>>

\* the engine reports a failure: the second map_err gives it the code of the site
EngineFails ==
    /\ t_ret = "none"
    /\ Guarded(t_site) => ~Elapsed
    /\ t_engine' = "failed"
    /\ t_ret' = t_site.code
    /\ UNCHANGED <<t_site, t_clock>>

\* timeout(..) gives up at the deadline: the first map_err makes it TIMEOUT_ERROR
TimeoutElapsed ==
    /\ t_ret = "none"
    /\ Guarded(t_site)
    /\ Elapsed
    /\ t_ret' = "TIMEOUT_ERROR"
    /\ UNCHANGED <<t_site, t_clock, t_engine>>

TimeoutNext ==
    \/ Tick
    \/ EngineOk
    \/ EngineFails
    \/ TimeoutElapsed

(***************************************************************************)
(* connections_store.rs: password encryption.  Text is a sequence of bytes *)
(* (the UTF-8 encoding of a String).  Aes256Gcm is a library outside the   *)
(* repository: it is modelled by a cipher of the same shape, a keystream   *)
(* added to the plaintext and a 16 byte tag over key, nonce and ciphertext *)
(* that decryption verifies.                                                *)
(***************************************************************************)
KEY_LENGTH == 32
NONCE_LENGTH == 12
TAG_LENGTH == 16
LongerBy == 2

Rep(b, n) == [i \in 1..n |-> b]

RECURSIVE SumSeq(_)
SumSeq(q) == IF q = <<>> THEN 0 ELSE q[1] + SumSeq(Tail(q))

\* base64::engine::general_purpose::STANDARD: the character of a 6 bit value
B64Char(v) ==
    IF v < 26 THEN 65 + v
    ELSE IF v < 52 THEN 97 + (v - 26)
    ELSE IF v < 62 THEN 48 + (v - 52)
    ELSE IF v = 62 THEN 43
    ELSE 47

\* the 6 bit value of a character, -1 for a character outside the alphabet
B64Val(c) ==
    IF c >= 65 /\ c <= 90 THEN c - 65
    ELSE IF c >= 97 /\ c <= 122 THEN c - 97 + 26
    ELSE IF c >= 48 /\ c <= 57 THEN c - 48 + 52
    ELSE IF c = 43 THEN 62
    ELSE IF c = 47 THEN 63
    ELSE -1

B64Pad == 61

\* STANDARD.encode: three bytes make four characters, the rest is padded with =
RECURSIVE B64Encode(_)
B64Encode(b) ==
    IF Len(b) = 0 THEN <<>>
    ELSE IF Len(b) = 1
    THEN <<B64Char(b[1] \div 4), B64Char((b[1] % 4) * 16), B64Pad, B64Pad>>
    ELSE IF Len(b) = 2
    THEN <<B64Char(b[1] \div 4), B64Char((b[1] % 4) * 16 + b[2] \div 16),
           B64Char((b[2] % 16) * 4), B64Pad>>
    ELSE <<B64Char(b[1] \div 4), B64Char((b[1] % 4) * 16 + b[2] \div 16),
           B64Char((b[2] % 16) * 4 + b[3] \div 64), B64Char(b[3] % 64)>>
         \o B64Encode(SubSeq(b, 4, Len(b)))

DecodeError == [ok |-> FALSE, data |-> <<>>]

\* STANDARD.decode: groups of four characters; padding only at the end of the
\* last group, and the bits a padded group leaves over must be zero
RECURSIVE B64Decode(_)
B64Decode(t) ==
    IF Len(t) = 0 THEN [ok |-> TRUE, data |-> <<>>]
    ELSE IF Len(t) < 4 THEN DecodeError
    ELSE LET a == B64Val(t[1])
             b == B64Val(t[2])
             c == B64Val(t[3])
             d == B64Val(t[4])
             last == Len(t) = 4
         IN IF a < 0 \/ b < 0 THEN DecodeError
            ELSE IF last /\ t[3] = B64Pad /\ t[4] = B64Pad
            THEN IF b % 16 = 0 THEN [ok |-> TRUE, data |-> <<a * 4 + b \div 16>>]
                 ELSE DecodeError
            ELSE IF c < 0 THEN DecodeError
            ELSE IF last /\ t[4] = B64Pad
            THEN IF c % 4 = 0
                 THEN [ok |-> TRUE,
                       data |-> <<a * 4 + b \div 16, (b % 16) * 16 + c \div 4>>]
                 ELSE DecodeError
            ELSE IF d < 0 THEN DecodeError
            ELSE LET rest == B64Decode(SubSeq(t, 5, Len(t)))
                 IN IF rest.ok
                    THEN [ok |-> TRUE,
                          data |-> <<a * 4 + b \div 16, (b % 16) * 16 + c \div 4,
                                     (c % 4) * 64 + d>> \o rest.data]
                    ELSE DecodeError

\* the bytes that may follow the lead byte of a UTF-8 sequence, one range each
Utf8Tail(lead) ==
    IF lead >= 194 /\ lead <= 223 THEN <<128..191>>
    ELSE IF lead = 224 THEN <<160..191, 128..191>>
    ELSE IF lead >= 225 /\ lead <= 236 THEN <<128..191, 128..191>>
    ELSE IF lead = 237 THEN <<128..159, 128..191>>
    ELSE IF lead >= 238 /\ lead <= 239 THEN <<128..191, 128..191>>
    ELSE IF lead = 240 THEN <<144..191, 128..191, 128..191>>
    ELSE IF lead >= 241 /\ lead <= 243 THEN <<128..191, 128..191, 128..191>>
    ELSE IF lead = 244 THEN <<128..143, 128..191, 128..191>>
    ELSE <<>>

\* how many of the bytes after the lead byte at i continue its sequence
RECURSIVE Utf8Matched(_, _, _, _)
Utf8Matched(b, i, tail, k) ==
    IF k > Len(tail) \/ i + k > Len(b) \/ b[i + k] \notin tail[k] THEN k - 1
    ELSE Utf8Matched(b, i, tail, k + 1)

REPLACEMENT == <<239, 191, 189>>

\* String::from_utf8_lossy(..).to_string(): valid sequences are kept, every
\* maximal ill-formed part becomes U+FFFD
RECURSIVE from_utf8_lossy(_, _)
from_utf8_lossy(b, i) ==
    IF i > Len(b) THEN <<>>
    ELSE IF b[i] < 128 THEN <<b[i]>> \o from_utf8_lossy(b, i + 1)
    ELSE LET tail == Utf8Tail(b[i])
             n == Utf8Matched(b, i, tail, 1)
         IN IF Len(tail) > 0 /\ n = Len(tail)
            THEN SubSeq(b, i, i + n) \o from_utf8_lossy(b, i + n + 1)
            ELSE REPLACEMENT \o from_utf8_lossy(b, i + n + 1)

\* the cipher standing for Aes256Gcm
KeyStream(key, nonce, i) ==
    (key[((i - 1) % KEY_LENGTH) + 1] + nonce[((i - 1) % NONCE_LENGTH) + 1] + i) % 256

Tag(key, nonce, ct) ==
    [j \in 1..TAG_LENGTH |->
        (key[j] + 3 * key[j + TAG_LENGTH] + j * nonce[((j - 1) % NONCE_LENGTH) + 1]
         + 7 * SumSeq(ct) + 11 * Len(ct) + j * j) % 256]

\* cipher.encrypt(nonce, plaintext): the ciphertext followed by its tag
AeadEncrypt(key, nonce, pt) ==
    LET ct == [i \in 1..Len(pt) |-> (pt[i] + KeyStream(key, nonce, i)) % 256]
    IN ct \o Tag(key, nonce, ct)

\* mutant of AeadDecrypt: the tag is not verified
AeadDecryptUnverified(key, nonce, sealed) ==
    IF Len(sealed) < TAG_LENGTH THEN [ok |-> FALSE, data |-> <<>>]
    ELSE LET ct == SubSeq(sealed, 1, Len(sealed) - TAG_LENGTH)
         IN [ok |-> TRUE,
             data |-> [i \in 1..Len(ct) |->
                         (ct[i] + 256 - KeyStream(key, nonce, i)) % 256]]

\* cipher.decrypt(nonce, ciphertext): fails unless the tag is the one of the ciphertext
AeadDecrypt(key, nonce, sealed) ==
    IF Len(sealed) < TAG_LENGTH THEN [ok |-> FALSE, data |-> <<>>]
    ELSE LET ct == SubSeq(sealed, 1, Len(sealed) - TAG_LENGTH)
             tag == SubSeq(sealed, Len(sealed) - TAG_LENGTH + 1, Len(sealed))
         IN IF tag # Tag(key, nonce, ct) THEN [ok |-> FALSE, data |-> <<>>]
            ELSE [ok |-> TRUE,
                  data |-> [i \in 1..Len(ct) |->
                              (ct[i] + 256 - KeyStream(key, nonce, i)) % 256]]

\* encrypt_password with the nonce OsRng drew
encrypt_password(key, nonce, password) ==
    B64Encode(nonce \o AeadEncrypt(key, nonce, password))

\* mutant of FramedLength: the short value test one byte too wide
FramedLengthOffByOne == NONCE_LENGTH + TAG_LENGTH + 1

\* NONCE_LENGTH + 16: the least length of nonce and ciphertext with its tag
FramedLength == NONCE_LENGTH + TAG_LENGTH

decrypt_password(key, encrypted) ==
    LET decoded == B64Decode(encrypted)
        combined == decoded.data
    IN IF ~decoded.ok THEN encrypted
       ELSE IF Len(combined) < FramedLength THEN from_utf8_lossy(combined, 1)
       ELSE LET plain == AeadDecrypt(key, SubSeq(combined, 1, NONCE_LENGTH),
                                     SubSeq(combined, NONCE_LENGTH + 1, Len(combined)))
            IN IF plain.ok THEN from_utf8_lossy(plain.data, 1)
               ELSE from_utf8_lossy(combined, 1)

\* the encryption keys and the nonces the random generator may give
Keys == { Rep(1, KEY_LENGTH), [i \in 1..KEY_LENGTH |-> (37 * i + 11) % 256] }
Nonces == { Rep(0, NONCE_LENGTH), [i \in 1..NONCE_LENGTH |-> (91 * i + 200) % 256] }

\* passwords: empty, short, with characters of two, three and four bytes, and
\* around the length of a nonce with a tag
Passwords ==
    { <<>>, <<112>>, <<112, 119>>, <<115, 51, 99, 114, 101, 116>>,
      <<195, 169, 33>>, <<226, 130, 172, 240, 159, 148, 145>> }
    \cup { Rep(97, n) : n \in (FramedLength - 1)..(FramedLength + LongerBy) }

CipherIdle ==
    /\ c_key = <<>>
    /\ c_password = <<>>
    /\ c_stored = <<>>
    /\ c_how = "none"
    /\ c_out = None

CipherInit ==
    /\ c_key \in Keys
    /\ c_password \in Passwords
    /\ c_stored = <<>>
    /\ c_how = "none"
    /\ c_out = None

\* save_connection encrypts the password for the password_encrypted column
CipherEncrypt ==
    /\ c_how = "none"
    /\ \E nonce \in Nonces : c_stored' = encrypt_password(c_key, nonce, c_password)
    /\ c_how' = "encrypted"
    /\ UNCHANGED <<c_key, c_password, c_out>>

\* the column holds what the earlier scheme wrote: base64 of the password
CipherLegacy ==
    /\ c_how = "none"
    /\ c_stored' = B64Encode(c_password)
    /\ c_how' = "legacy"
    /\ UNCHANGED <<c_key, c_password, c_out>>

\* get_all_connections / get_connection decrypt the column
CipherDecrypt ==
    /\ c_how # "none"
    /\ c_out = None
    /\ c_out' = Some(decrypt_password(c_key, c_stored))
    /\ UNCHANGED <<c_key, c_password, c_stored, c_how>>

CipherNext ==
    \/ CipherEncrypt
    \/ CipherLegacy
    \/ CipherDecrypt

(***************************************************************************)
(* connections_store.rs and the commands save_connection, get_connections, *)
(* delete_connection.  The connections table is the sequence of its rows   *)
(* in rowid order: INSERT OR REPLACE deletes the row of the same id and     *)
(* adds the new row at the end.  Every call locks the database handle for   *)
(* its whole length, so each command is one step.                           *)
(***************************************************************************)
MaxRows == 2
MaxUuids == 2
MaxSeconds == 1

\* Uuid::new_v4().to_string(): the n-th identifier drawn, never one drawn before
Uuid(n) == <<"uuid", n>>

EmptyId == <<>>
CallerId == <<"x">>

\* the profiles a caller saves: A and B differ in every field; the password of
\* A is empty
ProfileKinds == {"A", "B"}

Connection(id, kind) ==
    [id |-> id,
     name |-> IF kind = "A" THEN "prod" ELSE "test",
     db_type |-> IF kind = "A" THEN "mariadb" ELSE "postgresql",
     host |-> IF kind = "A" THEN "db1" ELSE "db2",
     port |-> IF kind = "A" THEN 3306 ELSE 5432,
     username |-> IF kind = "A" THEN "root" ELSE "admin",
     password |-> IF kind = "A" THEN <<>> ELSE <<112, 119>>,
     database |-> IF kind = "A" THEN "app" ELSE "shop",
     ssl_mode |-> IF kind = "A" THEN "preferred" ELSE "required"]

\* commands.rs save_connection: the StoredConnection built from the Connection
ToStored(conn) ==
    [id |-> conn.id, name |-> conn.name, db_type |-> conn.db_type, host |-> conn.host,
     port |-> conn.port, username |-> conn.username,
     password_encrypted |-> conn.password, database |-> conn.database,
     ssl_mode |-> conn.ssl_mode]

\* commands.rs get_connections: the Connection built from a StoredConnection
ToConnection(sc) ==
    [id |-> sc.id, name |-> sc.name, db_type |-> sc.db_type, host |-> sc.host,
     port |-> sc.port, username |-> sc.username, password |-> sc.password_encrypted,
     database |-> sc.database, ssl_mode |-> sc.ssl_mode]

\* the row INSERT OR REPLACE writes; created_at takes its default CURRENT_TIMESTAMP
Row(id, conn, password_encrypted, now) ==
    [id |-> id, name |-> conn.name, db_type |-> conn.db_type, host |-> conn.host,
     port |-> conn.port, username |-> conn.username,
     password_encrypted |-> password_encrypted, database |-> conn.database,
     ssl_mode |-> conn.ssl_mode, created_at |-> now]

\* the StoredConnection the row closures of the two get functions build
FromRow(key, row) ==
    [id |-> row.id, name |-> row.name, db_type |-> row.db_type, host |-> row.host,
     port |-> row.port, username |-> row.username,
     password_encrypted |-> decrypt_password(key, row.password_encrypted),
     database |-> row.database, ssl_mode |-> row.ssl_mode]

RowIds(rows) == { rows[i].id : i \in 1..Len(rows) }

\* mutant of DeleteRows: DELETE FROM connections without the WHERE clause
DeleteRowsAll(rows, id) == <<>>

\* DELETE FROM connections WHERE id = ? (also the delete of INSERT OR REPLACE)
DeleteRows(rows, id) == SelectSeq(rows, LAMBDA r : r.id # id)

\* ORDER BY created_at DESC: the orders in which the rows may come; rows of the
\* same second come in an order the query does not fix
Orderings(rows) ==
    { o \in [1..Len(rows) -> 1..Len(rows)] :
        /\ \A i, j \in 1..Len(rows) : i # j => o[i] # o[j]
        /\ \A i, j \in 1..Len(rows) :
              i < j => rows[o[i]].created_at >= rows[o[j]].created_at }

NoCall == [op |-> "none", arg |-> <<>>]

StoreIdle ==
    /\ s_key = <<>>
    /\ s_rows = <<>>
    /\ s_now = 0
    /\ s_uuids = 0
    /\ s_plain = {}
    /\ s_call = NoCall
    /\ s_store_ret = None
    /\ s_ret = None

\* ConnectionsStore::new on a new database file
StoreInit ==
    /\ s_key = CHOOSE key \in Keys : TRUE
    /\ s_rows = <<>>
    /\ s_now = 0
    /\ s_uuids = 0
    /\ s_plain = {}
    /\ s_call = NoCall
    /\ s_store_ret = None
    /\ s_ret = None

\* the ids a caller can name: of a stored profile, of one that was stored, its own
KnownIds == RowIds(s_rows) \cup { Uuid(n) : n \in 1..s_uuids } \cup {CallerId}

\* a second passes
StoreTick ==
    /\ s_now < MaxSeconds
    /\ s_now' = s_now + 1
    /\ UNCHANGED <<s_key, s_rows, s_uuids, s_plain, s_call, s_store_ret, s_ret>>

\* the command save_connection: ConnectionsStore::save_connection(stored), whose
\* result is dropped, then Ok(conn) with the conn the caller passed
SaveConnection ==
    \E cid \in RowIds(s_rows) \cup {EmptyId}, kind \in ProfileKinds :
        LET conn == Connection(cid, kind)
            nonce == CHOOSE n \in Nonces : TRUE
            stored == ToStored(conn)
            id == IF stored.id = EmptyId THEN Uuid(s_uuids + 1) ELSE stored.id
            password_encrypted == encrypt_password(s_key, nonce, stored.password_encrypted)
        IN /\ stored.id = EmptyId => s_uuids < MaxUuids
           /\ id \notin RowIds(s_rows) => Len(s_rows) < MaxRows
           /\ s_uuids' = IF stored.id = EmptyId THEN s_uuids + 1 ELSE s_uuids
           /\ s_rows' = Append(DeleteRows(s_rows, id),
                               Row(id, stored, password_encrypted, s_now))
           /\ s_plain' = { e \in s_plain : e[1] # id } \cup {<<id, conn.password>>}
           /\ s_call' = [op |-> "save_connection", arg |-> conn]
           /\ s_store_ret' = Some([stored EXCEPT !.id = id])
           /\ s_ret' = Some(conn)
           /\ UNCHANGED <<s_key, s_now>>

\* the command get_connections over ConnectionsStore::get_all_connections
GetConnections ==
    \E o \in Orderings(s_rows) :
        /\ s_call' = [op |-> "get_connections", arg |-> <<>>]
        /\ s_store_ret' = Some([i \in 1..Len(s_rows) |-> FromRow(s_key, s_rows[o[i]])])
        /\ s_ret' = Some([i \in 1..Len(s_rows) |->
                            ToConnection(FromRow(s_key, s_rows[o[i]]))])
        /\ UNCHANGED <<s_key, s_rows, s_now, s_uuids, s_plain>>

\* ConnectionsStore::get_connection: the row of the id, or None
GetConnection ==
    \E id \in KnownIds :
        /\ s_call' = [op |-> "get_connection", arg |-> id]
        /\ s_store_ret' =
              IF id \in RowIds(s_rows)
              THEN Some(FromRow(s_key, CHOOSE r \in { s_rows[i] : i \in 1..Len(s_rows) } :
                                          r.id = id))
              ELSE None
        /\ s_ret' = s_store_ret'
        /\ UNCHANGED <<s_key, s_rows, s_now, s_uuids, s_plain>>

\* the command delete_connection: Ok(rows_deleted > 0)
DeleteConnection ==
    \E id \in KnownIds :
        /\ s_rows' = DeleteRows(s_rows, id)
        /\ s_plain' = { e \in s_plain : e[1] # id }
        /\ s_call' = [op |-> "delete_connection", arg |-> id]
        /\ s_store_ret' = Some(Len(s_rows) - Len(s_rows') > 0)
        /\ s_ret' = s_store_ret'
        /\ UNCHANGED <<s_key, s_now, s_uuids>>

StoreNext ==
    \/ StoreTick
    \/ SaveConnection
    \/ GetConnections
    \/ GetConnection
    \/ DeleteConnection

(***************************************************************************)
(* The text of an export (db/mariadb.rs, db/postgresql.rs): the statements  *)
(* that carry a table or column name, the SQL literal of a column value and *)
(* the row-data statement.  The parameter written of an operator is what    *)
(* its format string interpolates; the caller says what it passes.          *)
(***************************************************************************)
\* rows of one row-data statement the model writes
MaxStatementRows == 2

\* [String]::join
RECURSIVE Join(_, _)
Join(texts, sep) ==
    IF texts = <<>> THEN <<>>
    ELSE IF Len(texts) = 1 THEN Head(texts)
    ELSE Head(texts) \o <<sep>> \o Join(Tail(texts), sep)

\* escape_identifier of the driver
EscapeIdentifier(variant, name) ==
    IF variant = "mariadb" THEN MariaEscapeIdentifier(name) ELSE PgEscapeIdentifier(name)

\* mariadb.rs get_conn: format!("USE {}") with the name between backticks
UseStatement(written) == <<"USE ", Backtick>> \o written \o <<Backtick>>

\* export_database_with_options: format!("\n-- Table: {}\n")
TableHeader(written) == <<"\n-- Table: ">> \o written \o <<"\n">>

\* export_database_with_options: the DROP TABLE statement
DropStatement(variant, written) ==
    IF variant = "mariadb"
    THEN <<"DROP TABLE IF EXISTS ", Backtick>> \o written \o <<Backtick, ";\n">>
    ELSE <<"DROP TABLE IF EXISTS \"">> \o written \o <<"\" CASCADE;\n">>

\* export_database_with_options: data_query of one page
DataQuery(variant, written, from) ==
    IF variant = "mariadb"
    THEN <<"SELECT * FROM ", Backtick>> \o written
         \o <<Backtick, " LIMIT ", ToString(BATCH_SIZE), " OFFSET ", ToString(from)>>
    ELSE <<"SELECT * FROM \"">> \o written
         \o <<"\" LIMIT ", ToString(BATCH_SIZE), " OFFSET ", ToString(from)>>

\* a column value as the engine holds it: the type of its column, whether it
\* is SQL NULL and, when it is not, its text
Cell(type, null, v) == [type |-> type, null |-> null, v |-> v]
NumericTypes == {"INT2", "INT4", "INT8", "FLOAT4", "FLOAT8"}

\* mysql_async query_iter (text protocol): a value arrives as NULL or as the
\* bytes of its text, whatever the type of its column
QueryIterValue(cell) ==
    IF cell.null THEN [kind |-> "NULL"] ELSE [kind |-> "Bytes", b |-> cell.v]

\* mariadb.rs mysql_value_to_sql
mysql_value_to_sql(value) ==
    CASE value.kind = "NULL" -> <<"NULL">>
      [] value.kind = "Bytes" -> <<"'">> \o MariaEscapeString(value.b) \o <<"'">>
      [] value.kind \in {"Int", "UInt", "Float", "Double"} -> value.b
      [] value.kind \in {"Date", "Time"} -> <<"'">> \o value.b \o <<"'">>

\* tokio_postgres FromSql::accepts of the Rust type a column is read as
FromSqlAccepts(rust_type, type) ==
    CASE rust_type = "String" -> type \in {"VARCHAR", "TEXT", "BPCHAR", "NAME", "UNKNOWN"}
      [] rust_type = "bool" -> type = "BOOL"
      [] rust_type = "NaiveDateTime" -> type = "TIMESTAMP"
      [] rust_type = "NaiveDate" -> type = "DATE"
      [] rust_type = "NaiveTime" -> type = "TIME"

\* row.try_get::<_, Option<T>>(idx).ok().flatten(): a type the Rust type does
\* not accept is an Err, which ok() turns into None as a NULL is
TryGetOkFlatten(rust_type, cell) ==
    IF FromSqlAccepts(rust_type, cell.type) /\ ~cell.null THEN Some(cell.v) ELSE None

\* postgresql.rs pg_value_to_sql
pg_value_to_sql(cell) ==
    LET read(rust_type) == TryGetOkFlatten(rust_type, cell)
        quoted(o) == IF o.some THEN <<"'">> \o o.v \o <<"'">> ELSE <<"NULL">>
    IN  CASE cell.type = "BOOL" ->
               IF read("bool").some
               THEN (IF read("bool").v = <<"true">> THEN <<"TRUE">> ELSE <<"FALSE">>)
               ELSE <<"NULL">>
          [] cell.type \in NumericTypes ->
               IF read("String").some THEN read("String").v ELSE <<"NULL">>
          [] cell.type \in {"VARCHAR", "TEXT", "CHAR", "BPCHAR", "NAME"} ->
               IF read("String").some
               THEN <<"'">> \o PgEscapeString(read("String").v) \o <<"'">>
               ELSE <<"NULL">>
          [] cell.type \in {"TIMESTAMP", "TIMESTAMPTZ"} -> quoted(read("NaiveDateTime"))
          [] cell.type = "DATE" -> quoted(read("NaiveDate"))
          [] cell.type \in {"TIME", "TIMETZ"} -> quoted(read("NaiveTime"))
          [] OTHER ->
               IF read("String").some
               THEN <<"'">> \o PgEscapeString(read("String").v) \o <<"'">>
               ELSE <<"NULL">>

\* the values of one row as the row loop of the export pushes them
RowValues(variant, row) ==
    [j \in DOMAIN row |->
        IF variant = "mariadb" THEN mysql_value_to_sql(QueryIterValue(row[j]))
        ELSE pg_value_to_sql(row[j])]

\* format_insert_statement: column_list
ColumnList(variant, column_args) ==
    LET q == IF variant = "mariadb" THEN Backtick ELSE "\""
    IN  Join([j \in DOMAIN column_args |-> <<q>> \o column_args[j] \o <<q>>], ", ")

\* format_insert_statement: values_list
ValuesList(rows) ==
    Join([i \in DOMAIN rows |-> <<"(">> \o Join(rows[i], ", ") \o <<")">>], ",\n  ")

\* mariadb.rs format_insert_statement: statement_type
StatementType(data_mode) ==
    CASE data_mode = "replace" -> "REPLACE"
      [] data_mode = "insert_ignore" -> "INSERT IGNORE"
      [] OTHER -> "INSERT"

\* what follows ON CONFLICT DO UPDATE SET: every column from EXCLUDED
ExcludedUpdates(column_args) ==
    Join([j \in DOMAIN column_args |->
            <<"\"">> \o column_args[j] \o <<"\" = EXCLUDED.\"">> \o column_args[j] \o <<"\"">>],
         ", ")

\* postgresql.rs format_insert_statement: conflict_clause
ConflictClause(column_args, data_mode) ==
    CASE data_mode = "replace" ->
            <<" ON CONFLICT DO UPDATE SET ">> \o ExcludedUpdates(column_args)
      [] data_mode = "insert_ignore" -> <<" ON CONFLICT DO NOTHING">>
      [] OTHER -> <<>>

\* format_insert_statement of the two drivers: the last format!
InsertStatement(variant, table_arg, column_args, rows, data_mode) ==
    IF variant = "mariadb"
    THEN <<StatementType(data_mode), " INTO ", Backtick>> \o table_arg
         \o <<Backtick, " (">> \o ColumnList(variant, column_args)
         \o <<") VALUES\n  ">> \o ValuesList(rows) \o <<";\n">>
    ELSE <<"INSERT INTO \"">> \o table_arg
         \o <<"\" (">> \o ColumnList(variant, column_args)
         \o <<") VALUES\n  ">> \o ValuesList(rows)
         \o ConflictClause(column_args, data_mode) \o <<";\n">>

\* format_insert_statement with the names it is called with
format_insert_statement(variant, table_name, columns, rows, data_mode) ==
    InsertStatement(variant, EscapeIdentifier(variant, table_name),
                    [j \in DOMAIN columns |-> EscapeIdentifier(variant, columns[j])],
                    rows, data_mode)

\* names of the databases, tables and columns the text is written for
NameSamples == {<<"t">>, <<"t", Backtick>>, <<"t", "\"", "x">>}
Col(name, type) == [name |-> name, type |-> type]
ColumnSets ==
    {<<Col(<<"c">>, "INT4")>>,
     <<Col(<<"b">>, "BOOL")>>,
     <<Col(<<"c", Backtick>>, "TEXT"), Col(<<"c", "\"">>, "FLOAT8")>>}
\* the values a column of a type takes in the model
CellSamples ==
    {Cell(type, TRUE, <<>>) : type \in {"INT4", "FLOAT8", "TEXT", "BOOL"}}
    \cup {Cell("INT4", FALSE, <<"7">>), Cell("FLOAT8", FALSE, <<"1", ".", "5">>),
          Cell("TEXT", FALSE, <<"x", "'">>), Cell("BOOL", FALSE, <<"true">>)}
\* the rows of a table of these columns
RowSamples(columns) ==
    {row \in [DOMAIN columns -> CellSamples] :
        \A j \in DOMAIN columns : row[j].type = columns[j].type}
RowBuffers(columns) ==
    UNION {[1 .. n -> RowSamples(columns)] : n \in 1 .. MaxStatementRows}

\* one generated text: what it is, the names placed into it, the values of
\* its rows and its pieces
Line(kind, names, values, text) ==
    [kind |-> kind, names |-> names, values |-> values, text |-> text]

\* no text is being generated
FormatIdle ==
    /\ w_variant = "none"
    /\ w_db = <<>>
    /\ w_table = <<>>
    /\ w_columns = <<>>
    /\ w_rows = <<>>
    /\ w_data_mode = "no_data"
    /\ w_pc = "idle"
    /\ w_lines = <<>>

\* an export of one table, include_drop set, with one buffer of rows to write
FormatInit ==
    /\ w_variant \in Variants
    /\ w_db \in NameSamples
    /\ w_table \in NameSamples
    /\ w_columns \in ColumnSets
    /\ w_rows \in RowBuffers(w_columns)
    /\ w_data_mode \in DataModes \ {"no_data"}
    /\ w_pc = IF w_variant = "mariadb" THEN "conn" ELSE "header"
    /\ w_lines = <<>>

WriteLine(line, then) ==
    /\ w_lines' = Append(w_lines, line)
    /\ w_pc' = then
    /\ UNCHANGED <<w_variant, w_db, w_table, w_columns, w_rows, w_data_mode>>

\* mariadb.rs get_conn: the USE statement sent before the export's queries
FormatUse ==
    /\ w_pc = "conn"
    /\ WriteLine(Line("use", <<w_db>>, <<>>, UseStatement(MariaEscapeIdentifier(w_db))),
                 "header")

\* export_database_with_options: the comment that opens a table's section
FormatHeader ==
    /\ w_pc = "header"
    /\ WriteLine(Line("header", <<w_table>>, <<>>, TableHeader(w_table)), "drop")

\* export_database_with_options: include_drop
FormatDrop ==
    /\ w_pc = "drop"
    /\ WriteLine(Line("drop", <<w_table>>, <<>>,
                      DropStatement(w_variant, EscapeIdentifier(w_variant, w_table))),
                 "query")

\* export_database_with_options: the query of the first page
FormatDataQuery ==
    /\ w_pc = "query"
    /\ WriteLine(Line("query", <<w_table>>, <<>>,
                      DataQuery(w_variant, EscapeIdentifier(w_variant, w_table), 0)),
                 "insert")

\* export_database_with_options: the buffered rows become one statement
FormatInsert ==
    /\ w_pc = "insert"
    /\ LET columns == [j \in DOMAIN w_columns |-> w_columns[j].name]
           values == [i \in DOMAIN w_rows |-> RowValues(w_variant, w_rows[i])]
       IN  WriteLine(Line("insert", <<w_table>> \o columns, values,
                          format_insert_statement(w_variant, w_table, columns, values,
                                                  w_data_mode)),
                     "done")

FormatNext ==
    \/ FormatUse
    \/ FormatHeader
    \/ FormatDrop
    \/ FormatDataQuery
    \/ FormatInsert

(***************************************************************************)
(* The row-data loop of export_database_with_options over a table of more   *)
(* than one page, one step per page (db/mariadb.rs, db/postgresql.rs).      *)
(* The engine answers every page query over the rows of the unchanged table *)
(* in one order; row i is the i-th row in that order.  A row-data statement *)
(* is written as the interval of the rows it holds.                         *)
(***************************************************************************)
\* full pages of the largest table
MaxFullPages == 2

\* tables of up to MaxFullPages full pages, each with no, one, or all but one
\* of the rows of another page
TableSizes ==
    {k * BATCH_SIZE + d : k \in 0 .. MaxFullPages, d \in {0, 1, BATCH_SIZE - 1}}
InsertSizes ==
    {0, 1, BATCH_SIZE \div (MaxFullPages + 1), BATCH_SIZE, BATCH_SIZE + 1}

\* rows the engine returns for LIMIT BATCH_SIZE OFFSET from of a table of n rows
PageRows(n, from) ==
    IF n <= from THEN 0
    ELSE IF n - from >= BATCH_SIZE THEN BATCH_SIZE ELSE n - from

\* mutant of FlushSize: with max_insert_size = 0 only the rest is written
FlushSizeWholePage(max_insert_size) ==
    IF max_insert_size = 0 THEN BATCH_SIZE ELSE max_insert_size

\* the length at which the row loop writes row_buffer: the test
\* row_buffer.len() >= max_insert_size follows a push, so with
\* max_insert_size = 0 it holds after every row
FlushSize(max_insert_size) ==
    IF max_insert_size = 0 THEN 1 ELSE max_insert_size

\* the statements of the row loop over a page of len rows that follow row
\* from: one per full buffer, and one of the rest when the rest is not empty
PageStatements(from, len, max_insert_size) ==
    LET size == FlushSize(max_insert_size)
        count == (len + size - 1) \div size
    IN  [k \in 1 .. count |->
            [first |-> from + (k - 1) * size + 1,
             last |-> from + (IF k * size <= len THEN k * size ELSE len)]]

\* mutant of ShortPage: a full page ends the loop too
ShortPageOrFull(page_rows) == page_rows <= BATCH_SIZE

\* the test that ends the loop after a page
ShortPage(page_rows) == page_rows < BATCH_SIZE

\* no table is being paged
PagesIdle ==
    /\ p_variant = "none"
    /\ p_rows = 0
    /\ p_max_insert_size = 0
    /\ p_offset = 0
    /\ p_pc = "idle"
    /\ p_page = 0
    /\ p_queries = <<>>
    /\ p_statements = <<>>
    /\ p_text_rows = 0

\* data_mode is not no_data: let mut offset = 0
PagesInit ==
    /\ p_variant \in Variants
    /\ p_rows \in TableSizes
    /\ p_max_insert_size \in InsertSizes
    /\ p_offset = 0
    /\ p_pc = "query"
    /\ p_page = 0
    /\ p_queries = <<>>
    /\ p_statements = <<>>
    /\ p_text_rows = 0

\* the page query; PostgreSQL leaves the loop on an empty page
PagesQuery ==
    /\ p_pc = "query"
    /\ p_queries' = Append(p_queries, p_offset)
    /\ p_page' = PageRows(p_rows, p_offset)
    /\ p_pc' = IF p_variant = "postgresql" /\ PageRows(p_rows, p_offset) = 0
               THEN "out" ELSE "rows"
    /\ UNCHANGED <<p_variant, p_rows, p_max_insert_size, p_offset, p_statements, p_text_rows>>

\* the row loop over the page and the write of the rest of row_buffer
PagesWrite ==
    /\ p_pc = "rows"
    /\ p_statements' = p_statements \o PageStatements(p_offset, p_page, p_max_insert_size)
    /\ p_text_rows' = p_text_rows + p_page
    /\ p_pc' = "end"
    /\ UNCHANGED <<p_variant, p_rows, p_max_insert_size, p_offset, p_page, p_queries>>

\* break after a short page, else offset += BATCH_SIZE
PagesEnd ==
    /\ p_pc = "end"
    /\ IF ShortPage(p_page)
       THEN p_pc' = "out" /\ UNCHANGED p_offset
       ELSE p_pc' = "query" /\ p_offset' = p_offset + BATCH_SIZE
    /\ p_page' = 0
    /\ UNCHANGED <<p_variant, p_rows, p_max_insert_size, p_queries, p_statements, p_text_rows>>

\* Ok(sql_content): the text is handed to the command
PagesReturn ==
    /\ p_pc = "out"
    /\ p_pc' = "returned"
    /\ UNCHANGED <<p_variant, p_rows, p_max_insert_size, p_offset, p_page, p_queries,
                   p_statements, p_text_rows>>

PagesNext ==
    \/ PagesQuery
    \/ PagesWrite
    \/ PagesEnd
    \/ PagesReturn

\* rows of the table held in memory: the page in data_rows (PostgreSQL; the
\* MariaDB driver streams the page and holds row_buffer only while it runs
\* the row loop) and the rows in the text of sql_content, until it is returned
HeldRows ==
    (IF p_variant = "postgresql" /\ p_pc \in {"rows", "end"} THEN p_page ELSE 0)
    + (IF p_pc # "returned" THEN p_text_rows ELSE 0)

(***************************************************************************)
(* The locks of the commands and the drivers: the mutex of the managed      *)
(* ActiveConnection, client and current_database of the connection in the   *)
(* slot, db of the credential store (commands.rs, db/mariadb.rs,            *)
(* db/postgresql.rs, storage/connections_store.rs).  A command is the       *)
(* sequence of its lock sites and of the awaits between them; it drops      *)
(* every guard it holds when it returns.                                    *)
(***************************************************************************)
Locks == {"active_conn", "client", "current_database", "db"}

Op(kind, l) == [kind |-> kind, l |-> l]
LockOp(l) == Op("lock", l)
UnlockOp(l) == Op("unlock", l)
\* an await on the engine or on sqlite, which may return an error
CallOp == Op("call", "none")
\* match &*active / active.take(): the look at the slot
LookOp == Op("look", "none")
\* *active = Some(db_conn)
StoreOp == Op("store", "none")

LockCmds == {"connect_to_database", "disconnect_from_database", "change_database",
             "get_current_database", "list_tables", "list_databases", "save_connection"}

\* what a command does from its invocation on
CommandOps(c) ==
    CASE c = "connect_to_database" -> <<CallOp, LockOp("active_conn"), StoreOp>>
      [] c = "save_connection" -> <<LockOp("db"), CallOp, UnlockOp("db")>>
      [] OTHER -> <<LockOp("active_conn"), LookOp>>

\* mutant of DriverOps: get_current_database of the PostgreSQL driver reads the
\* name and then asks for the client
DriverOpsNameFirst(c, variant) ==
    IF variant = "none" THEN <<>>
    ELSE IF c = "get_current_database" /\ variant = "postgresql"
    THEN <<LockOp("current_database"), LockOp("client")>>
    ELSE <<LockOp("client"), CallOp>>

\* what the driver method of a command does on the connection in the slot
DriverOps(c, variant) ==
    CASE variant = "none" -> <<>>
      [] c = "get_current_database" -> <<LockOp("current_database")>>
      [] c = "disconnect_from_database" ->
            IF variant = "mariadb" THEN <<CallOp>> ELSE <<>>
      [] c = "change_database" /\ variant = "mariadb" ->
            <<CallOp, LockOp("current_database")>>
      [] c = "change_database" /\ variant = "postgresql" ->
            <<CallOp, LockOp("client"), LockOp("current_database")>>
      [] c = "list_databases" /\ variant = "mariadb" -> <<CallOp>>
      [] variant = "mariadb" ->
            <<LockOp("current_database"), UnlockOp("current_database"), CallOp>>
      [] OTHER -> <<LockOp("client"), CallOp>>

\* the locks invocation p holds
Held(p) == {k_held[p][i] : i \in DOMAIN k_held[p]}
LockFree(l) == \A q \in Procs : l \notin Held(q)
NextOp(p) == Head(k_ops[p])
\* invocation p waits for a lock
WaitsFor(p, l) == k_ops[p] # <<>> /\ NextOp(p) = LockOp(l)
Waits(p) == \E l \in Locks : WaitsFor(p, l)

\* no command runs
LocksIdle ==
    /\ k_conn = "none"
    /\ k_cmd = [p \in Procs |-> "none"]
    /\ k_ops = [p \in Procs |-> <<>>]
    /\ k_held = [p \in Procs |-> <<>>]
    /\ k_new = [p \in Procs |-> "none"]

LocksInit == LocksIdle

\* a command is invoked
Invoke(p) ==
    /\ k_cmd[p] = "none"
    /\ \E c \in LockCmds, v \in Variants :
          /\ k_cmd' = [k_cmd EXCEPT ![p] = c]
          /\ k_ops' = [k_ops EXCEPT ![p] = CommandOps(c)]
          /\ k_new' = [k_new EXCEPT ![p] = IF c = "connect_to_database" THEN v ELSE "none"]
          /\ c # "connect_to_database" => v = CHOOSE x \in Variants : TRUE
    /\ UNCHANGED <<k_conn, k_held>>

\* lock().await returns the guard
Acquire(p) ==
    /\ k_cmd[p] # "none"
    /\ k_ops[p] # <<>>
    /\ NextOp(p).kind = "lock"
    /\ LockFree(NextOp(p).l)
    /\ k_held' = [k_held EXCEPT ![p] = Append(@, NextOp(p).l)]
    /\ k_ops' = [k_ops EXCEPT ![p] = Tail(@)]
    /\ UNCHANGED <<k_conn, k_cmd, k_new>>

\* a step of a command that waits for nothing but the await it is in
Proceed(p) ==
    /\ k_cmd[p] # "none"
    /\ k_ops[p] # <<>>
    /\ LET op == NextOp(p)
       IN  CASE op.kind = "unlock" ->
                  /\ k_held' = [k_held EXCEPT ![p] = SelectSeq(@, LAMBDA l : l # op.l)]
                  /\ k_ops' = [k_ops EXCEPT ![p] = Tail(@)]
                  /\ UNCHANGED k_conn
             [] op.kind = "call" ->
                  /\ \/ k_ops' = [k_ops EXCEPT ![p] = Tail(@)]
                     \/ k_ops' = [k_ops EXCEPT ![p] = <<>>]
                  /\ UNCHANGED <<k_conn, k_held>>
             [] op.kind = "look" ->
                  /\ k_ops' = [k_ops EXCEPT ![p] = DriverOps(k_cmd[p], k_conn)]
                  /\ k_conn' = IF k_cmd[p] = "disconnect_from_database" THEN "none" ELSE k_conn
                  /\ UNCHANGED k_held
             [] op.kind = "store" ->
                  /\ k_conn' = k_new[p]
                  /\ k_ops' = [k_ops EXCEPT ![p] = Tail(@)]
                  /\ UNCHANGED k_held
             [] OTHER -> FALSE
    /\ UNCHANGED <<k_cmd, k_new>>

\* the command returns: its guards are dropped
ReturnCommand(p) ==
    /\ k_cmd[p] # "none"
    /\ k_ops[p] = <<>>
    /\ k_cmd' = [k_cmd EXCEPT ![p] = "none"]
    /\ k_held' = [k_held EXCEPT ![p] = <<>>]
    /\ k_new' = [k_new EXCEPT ![p] = "none"]
    /\ UNCHANGED <<k_conn, k_ops>>

LocksNext ==
    \E p \in Procs :
        \/ Invoke(p)
        \/ Acquire(p)
        \/ Proceed(p)
        \/ ReturnCommand(p)

(***************************************************************************)
(* The specifications.                                                      *)
(***************************************************************************)
Init == MainInit /\ QueryIdle /\ FactoryIdle /\ UpdateIdle /\ ExportIdle /\ TimeoutIdle /\ CipherIdle /\ StoreIdle /\ FormatIdle /\ PagesIdle /\ LocksIdle /\ DisconnectIdle
Next == MainNext /\ UNCHANGED <<queryVars, factoryVars, updateVars, exportVars, timeoutVars, cipherVars, storeVars, formatVars, pageVars, lockVars, historyVars>>
Spec == Init /\ [][Next]_vars

InitQuery == MainInit /\ QueryInit /\ FactoryIdle /\ UpdateIdle /\ ExportIdle /\ TimeoutIdle /\ CipherIdle /\ StoreIdle /\ FormatIdle /\ PagesIdle /\ LocksIdle /\ DisconnectIdle
NextQuery == QueryNext /\ UNCHANGED <<mainVars, factoryVars, updateVars, exportVars, timeoutVars, cipherVars, storeVars, formatVars, pageVars, lockVars, historyVars>>
SpecQuery == InitQuery /\ [][NextQuery]_vars

InitFactory == MainInit /\ QueryIdle /\ FactoryInit /\ UpdateIdle /\ ExportIdle /\ TimeoutIdle /\ CipherIdle /\ StoreIdle /\ FormatIdle /\ PagesIdle /\ LocksIdle /\ DisconnectIdle
NextFactory == FactoryNext /\ UNCHANGED <<mainVars, queryVars, updateVars, exportVars, timeoutVars, cipherVars, storeVars, formatVars, pageVars, lockVars, historyVars>>
SpecFactory == InitFactory /\ [][NextFactory]_vars

InitUpdate == MainInit /\ QueryIdle /\ FactoryIdle /\ UpdateInit /\ ExportIdle /\ TimeoutIdle /\ CipherIdle /\ StoreIdle /\ FormatIdle /\ PagesIdle /\ LocksIdle /\ DisconnectIdle
NextUpdate == UpdateNext /\ UNCHANGED <<mainVars, queryVars, factoryVars, exportVars, timeoutVars, cipherVars, storeVars, formatVars, pageVars, lockVars, historyVars>>
SpecUpdate == InitUpdate /\ [][NextUpdate]_vars

InitExport == MainInit /\ QueryIdle /\ FactoryIdle /\ UpdateIdle /\ ExportInit /\ TimeoutIdle /\ CipherIdle /\ StoreIdle /\ FormatIdle /\ PagesIdle /\ LocksIdle /\ DisconnectIdle
NextExport == ExportNext /\ UNCHANGED <<mainVars, queryVars, factoryVars, updateVars, timeoutVars, cipherVars, storeVars, formatVars, pageVars, lockVars, historyVars>>
SpecExport == InitExport /\ [][NextExport]_vars

InitTimeout == MainInit /\ QueryIdle /\ FactoryIdle /\ UpdateIdle /\ ExportIdle /\ TimeoutInit /\ CipherIdle /\ StoreIdle /\ FormatIdle /\ PagesIdle /\ LocksIdle /\ DisconnectIdle
NextTimeout == TimeoutNext /\ UNCHANGED <<mainVars, queryVars, factoryVars, updateVars, exportVars, cipherVars, storeVars, formatVars, pageVars, lockVars, historyVars>>
SpecTimeout == InitTimeout /\ [][NextTimeout]_vars

InitCipher == MainInit /\ QueryIdle /\ FactoryIdle /\ UpdateIdle /\ ExportIdle /\ TimeoutIdle /\ CipherInit /\ StoreIdle /\ FormatIdle /\ PagesIdle /\ LocksIdle /\ DisconnectIdle
NextCipher == CipherNext /\ UNCHANGED <<mainVars, queryVars, factoryVars, updateVars, exportVars, timeoutVars, storeVars, formatVars, pageVars, lockVars, historyVars>>
SpecCipher == InitCipher /\ [][NextCipher]_vars

InitStore == MainInit /\ QueryIdle /\ FactoryIdle /\ UpdateIdle /\ ExportIdle /\ TimeoutIdle /\ CipherIdle /\ StoreInit /\ FormatIdle /\ PagesIdle /\ LocksIdle /\ DisconnectIdle
NextStore == StoreNext /\ UNCHANGED <<mainVars, queryVars, factoryVars, updateVars, exportVars, timeoutVars, cipherVars, formatVars, pageVars, lockVars, historyVars>>
SpecStore == InitStore /\ [][NextStore]_vars

InitFormat == MainInit /\ QueryIdle /\ FactoryIdle /\ UpdateIdle /\ ExportIdle /\ TimeoutIdle /\ CipherIdle /\ StoreIdle /\ FormatInit /\ PagesIdle /\ LocksIdle /\ DisconnectIdle
NextFormat == FormatNext /\ UNCHANGED <<mainVars, queryVars, factoryVars, updateVars, exportVars, timeoutVars, cipherVars, storeVars, pageVars, lockVars, historyVars>>
SpecFormat == InitFormat /\ [][NextFormat]_vars

InitPages == MainInit /\ QueryIdle /\ FactoryIdle /\ UpdateIdle /\ ExportIdle /\ TimeoutIdle /\ CipherIdle /\ StoreIdle /\ FormatIdle /\ PagesInit /\ LocksIdle /\ DisconnectIdle
NextPages == PagesNext /\ UNCHANGED <<mainVars, queryVars, factoryVars, updateVars, exportVars, timeoutVars, cipherVars, storeVars, formatVars, lockVars, historyVars>>
SpecPages == InitPages /\ [][NextPages]_vars

InitLocks == MainInit /\ QueryIdle /\ FactoryIdle /\ UpdateIdle /\ ExportIdle /\ TimeoutIdle /\ CipherIdle /\ StoreIdle /\ FormatIdle /\ PagesIdle /\ LocksInit /\ DisconnectIdle
NextLocks == LocksNext /\ UNCHANGED <<mainVars, queryVars, factoryVars, updateVars, exportVars, timeoutVars, cipherVars, storeVars, formatVars, pageVars, historyVars>>
SpecLocks == InitLocks /\ [][NextLocks]_vars

InitBatch == MainInit /\ QueryIdle /\ FactoryIdle /\ UpdateIdle /\ BatchInit /\ TimeoutIdle /\ CipherIdle /\ StoreIdle /\ FormatIdle /\ PagesIdle /\ LocksIdle /\ DisconnectIdle
SpecBatch == InitBatch /\ [][NextExport]_vars

InitDisconnect == Init
NextDisconnect == DisconnectNext /\ UNCHANGED <<queryVars, factoryVars, updateVars, exportVars, timeoutVars, cipherVars, storeVars, formatVars, pageVars, lockVars>>
SpecDisconnect == InitDisconnect /\ [][NextDisconnect]_vars

\* the export runs on: a driver call that returns lets the loop take its
\* next step
SpecPagesLive == SpecPages /\ WF_vars(NextPages)

\* the commands of Spec, with the record of a failed disconnect
NextFailedDisconnect == MainNext /\ FailedDisconnectHistory /\ UNCHANGED <<queryVars, factoryVars, updateVars, exportVars, timeoutVars, cipherVars, storeVars, formatVars, pageVars, lockVars>>
SpecFailedDisconnect == Init /\ [][NextFailedDisconnect]_vars

\* every await of a command returns, and a tokio mutex hands its guard to the
\* waiting tasks in the order they asked (the std mutex of the store is held
\* for one sqlite call)
SpecLocksLive ==
    /\ SpecLocks
    /\ \A p \in Procs :
          /\ WF_lockVars(Proceed(p) \/ ReturnCommand(p))
          /\ SF_lockVars(Acquire(p))

TypeOK ==
    /\ lock \in {0} \cup Procs
    /\ \A p \in Procs : hconn[p] \in {"none", "slot", "own"}

(***************************************************************************)
(* Properties of the commands and the slot (specification Spec).            *)
(***************************************************************************)
InDriver(p) == pc[p] \in DriverPcs

\* C1: at most one command is inside a driver call on the live connection at
\* any moment, and a command holds the slot lock from before its first driver
\* call until after its last one (it still holds it when the call has returned)
C1_OneInFlight ==
    \A p \in Procs :
        /\ InDriver(p) =>
             /\ lock = p
             /\ \A q \in Procs \ {p} : ~InDriver(q)
        /\ (pc[p] = "done" /\ cmd[p] \in UseCmds \cup {"disconnect_from_database"}) =>
             lock = p

\* a command is inside a query of the live connection while another invocation
\* (a connect_to_database that has built its connection) waits for the lock
C1_Witness ==
    \E p, q \in Procs :
        /\ p # q
        /\ pc[p] \in {"m_query", "pg_query"}
        /\ cmd[p] = "execute_query"
        /\ pc[q] = "wait"

\* which connection the slot holds
SlotIdentity(c) == <<c.variant, c.by>>

C2_State ==
    \A p \in Procs :
        /\ (cmd[p] = "connect_to_database" /\ pc[p] = "done" /\ res[p] = "ok") =>
             (slot # NoConn /\ slot.by = p)
        /\ (cmd[p] = "disconnect_from_database" /\ pc[p] \in {"disc", "done"}) =>
             slot = NoConn

C2_Step ==
    /\ \A p \in Procs :
         (pc[p] = "wait" /\ pc'[p] = "done") => (slot' = own[p] /\ slot' # NoConn)
    /\ SlotIdentity(slot') # SlotIdentity(slot) =>
         \E p \in Procs :
            \/ pc[p] = "wait" /\ pc'[p] = "done" /\ slot' = own[p]
            \/ /\ pc[p] = "idle" /\ cmd'[p] = "disconnect_from_database"
               /\ slot' = NoConn /\ own'[p] = slot

\* C2: the slot starts empty; a successful connect_to_database leaves in it
\* exactly the connection it created; disconnect_from_database leaves it empty;
\* no other step changes which connection the slot holds
C2_SlotDiscipline == (slot = NoConn) /\ []C2_State /\ [][C2_Step]_vars

\* a connect_to_database has replaced the connection another invocation stored
C2_Witness ==
    \E p, q \in Procs :
        /\ p # q
        /\ cmd[p] = "connect_to_database" /\ pc[p] = "done" /\ res[p] = "ok"
        /\ slot.by = p
        /\ cmd[q] = "connect_to_database" /\ pc[q] = "wait"

\* C6: once change_database(name) has returned Ok, get_current_database
\* returns name and every later database-scoped operation on the connection
\* runs against name, until the next change_database that returns Ok
C6_CurrentDatabaseFollowsChange ==
    \A p \in Procs :
        (pc[p] = "done" /\ res[p] = "ok" /\ hconn[p] = "slot" /\ slot # NoConn) =>
            /\ cmd[p] \in ScopedCmds => ranOn[p] = slot.lastOk
            /\ cmd[p] = "get_current_database" => out[p] = slot.lastOk
            /\ cmd[p] = "change_database" => slot.current_database = arg[p]

\* a scoped operation has run on a MariaDB connection whose database was
\* changed away from the one a pooled session still has selected
C6_Witness ==
    \E p \in Procs :
        /\ pc[p] = "done" /\ res[p] = "ok" /\ cmd[p] = "list_tables"
        /\ slot.variant = "mariadb"
        /\ ranOn[p] = slot.lastOk
        /\ \E s \in Sessions : slot.sessions[s] # slot.lastOk

\* C7: no driver operation other than the change_database in progress sees a
\* PostgreSQL connection whose current_database differs from the database its
\* client is connected to, and when change_database has returned Ok the
\* connection owns the new client and no other
C7_ClientAndNameAgree ==
    \A p \in Procs :
        /\ (InDriver(p) /\ pc[p] # "pg_setdb" /\ Conn(p).variant = "postgresql") =>
             Conn(p).current_database = Conn(p).client_db
        /\ (pc[p] = "done" /\ cmd[p] = "change_database" /\ res[p] = "ok"
              /\ slot.variant = "postgresql") =>
             /\ slot.client = newcl[p]
             /\ slot.clients = {newcl[p]}
             /\ slot.client_db = arg[p]
             /\ slot.current_database = arg[p]

\* get_current_database reads a PostgreSQL connection whose client was replaced
C7_Witness ==
    \E p \in Procs :
        /\ pc[p] = "gcd"
        /\ slot.variant = "postgresql"
        /\ slot.client = 2
        /\ slot.client_db = slot.lastOk

(***************************************************************************)
(* Properties of execute_query (specification SpecQuery).                   *)
(***************************************************************************)
MinOf(a, b) == IF a <= b THEN a ELSE b

\* C3: a successful execute_query reports row_count = the rows the engine
\* produced, keeps exactly the first min(row_count, MAX_QUERY_ROWS) of them in
\* engine order, and sets truncated exactly when row_count > MAX_QUERY_ROWS
C3_RowCap ==
    q_pc = "ok" =>
        /\ row_count = q_engine
        /\ Len(result_rows) = MinOf(row_count, MAX_QUERY_ROWS)
        /\ truncated = (row_count > MAX_QUERY_ROWS)
        /\ \A i \in 1 .. Len(result_rows) : result_rows[i] = i

\* a PostgreSQL query whose result is larger than the cap has returned
C3_Witness ==
    /\ q_pc = "ok"
    /\ q_variant = "postgresql"
    /\ q_engine > MAX_QUERY_ROWS
    /\ truncated
    /\ Len(result_rows) = MAX_QUERY_ROWS

(***************************************************************************)
(* Properties of create_connection (specification SpecFactory).             *)
(***************************************************************************)
\* s spells w, letter by letter, in any mix of upper and lower case
SpellsIgnoringCase(s, w) ==
    /\ Len(s) = Len(w)
    /\ \A i \in 1 .. Len(w) : s[i] = w[i] \/ s[i] = AsciiUpper[w[i]]

NamesMaria(s) == \E w \in MariaNames : SpellsIgnoringCase(s, w)
NamesPg(s) == \E w \in PgNames : SpellsIgnoringCase(s, w)

\* C5: every case variant of "mariadb"/"mysql" selects the MariaDB driver and
\* every case variant of "postgresql"/"postgres" the PostgreSQL driver, and
\* such a call never fails with INVALID_DB_TYPE; every other db_type fails
\* with INVALID_DB_TYPE, no driver chosen and no connection attempt made
C5_KindResolution ==
    f_pc \notin {"idle", "call"} =>
        /\ NamesMaria(f_db_type) => f_variant = "mariadb" /\ f_code # "INVALID_DB_TYPE"
        /\ NamesPg(f_db_type) => f_variant = "postgresql" /\ f_code # "INVALID_DB_TYPE"
        /\ (~NamesMaria(f_db_type) /\ ~NamesPg(f_db_type)) =>
              /\ f_pc = "err"
              /\ f_code = "INVALID_DB_TYPE"
              /\ f_variant = "none"
              /\ f_attempts = 0

\* the attempts create_pool / create_client made, in order
PolicyLog == SelectSeq(f_log, LAMBDA a : a.by = "policy")

\* creation has ended, or create_pool has returned its pool
PolicyEnded == f_pc \in {"ok", "err", "maria_verify"}

\* C13: with "disabled" no attempt is ever encrypted; with "required" no
\* attempt is ever unencrypted and a failed encrypted attempt ends creation
\* with SSL_ERROR; with "preferred" an encrypted attempt comes first and, when
\* it fails, exactly one unencrypted attempt follows and decides the outcome
C13_SslPolicy ==
    f_variant # "none" =>
        /\ f_ssl_mode = "disabled" => \A i \in DOMAIN f_log : ~f_log[i].enc
        /\ f_ssl_mode = "required" =>
              /\ \A i \in DOMAIN f_log : f_log[i].enc
              /\ \A i \in DOMAIN PolicyLog :
                    ~PolicyLog[i].ok => f_pc = "err" /\ f_code = "SSL_ERROR"
        /\ (f_ssl_mode = "preferred" /\ PolicyEnded) =>
              /\ Len(PolicyLog) >= 1
              /\ PolicyLog[1].enc
              /\ PolicyLog[1].ok => Len(PolicyLog) = 1
              /\ ~PolicyLog[1].ok =>
                    /\ Len(PolicyLog) = 2
                    /\ ~PolicyLog[2].enc
                    /\ ~PolicyLog[2].ok => f_pc = "err" /\ f_code = "CONNECTION_ERROR"
              /\ PolicyLog[Len(PolicyLog)].ok =>
                    f_pc # "err" \/ \E i \in DOMAIN f_log : f_log[i].by = "verify" /\ ~f_log[i].ok

\* create_pool of the MariaDB driver keeps C13
C13_MariaSslPolicy == f_variant = "mariadb" => C13_SslPolicy

\* "PostGres" was resolved to the PostgreSQL driver, whose connection failed
C5_Witness ==
    /\ f_db_type = <<"P", "o", "s", "t", "G", "r", "e", "s">>
    /\ f_pc = "err"
    /\ f_variant = "postgresql"
    /\ f_attempts = 1
    /\ f_code = "CONNECTION_ERROR"

(***************************************************************************)
(* Properties of update_cell (specification SpecUpdate).                    *)
(***************************************************************************)
\* the characters that reach update_cell only inside new_value and
\* primary_key_value: no identifier and no format string holds them
ValueOnlyChars == {"x", "7"}

\* C4: the statement handed to the engine holds nothing of new_value or
\* primary_key_value; both travel as bound parameters, in either driver
C4_ValuesAreBound ==
    u_sent =>
        /\ \A i \in 1 .. Len(u_sql) : u_sql[i] \notin ValueOnlyChars
        /\ u_params = (IF u_req.new_value.some
                       THEN <<u_req.new_value.v, u_req.primary_key_value>>
                       ELSE <<u_req.primary_key_value>>)

\* the MariaDB driver alone keeps C4
C4_MariaValuesAreBound == u_variant = "mariadb" => C4_ValuesAreBound

\* the update statement with the values written into it
RenderedUpdate ==
    IF u_variant = "mariadb" THEN MariaLoggedQuery(u_req) ELSE PgUpdateQuery(u_req)

\* C12: the update_cell command always returns a result; after a successful
\* driver update it has success, no error and the SQL text of the update with
\* the values rendered as executed_query; after a driver failure or without a
\* connection it has no success, no executed_query and an error, whose code
\* is NO_CONNECTION when nothing is connected
C12_UpdateCellResult ==
    u_pc = "done" =>
        /\ u_result.returned
        /\ u_result.success = (u_variant # "none" /\ u_code = "none")
        /\ u_result.success =>
              /\ u_result.error = None
              /\ u_result.executed_query = Some(RenderedUpdate)
        /\ ~u_result.success =>
              /\ u_result.executed_query = None
              /\ u_result.error.some
              /\ u_result.error.v.code = (IF u_variant = "none" THEN "NO_CONNECTION" ELSE u_code)

\* the MariaDB driver and the command keep C12
C12_MariaUpdateCellResult == u_variant # "postgresql" => C12_UpdateCellResult

(***************************************************************************)
(* Properties of the export (specification SpecExport).                     *)
(***************************************************************************)
\* C8: once a query of the export has failed, export_database_with_options
\* has returned that error with no SQL text, no query is sent after the
\* failed one, and export_database writes no file
C8_FailureAborts ==
    e_failed_at # "none" =>
        /\ e_pc \in {"err", "failed"}
        /\ e_ret.returned /\ ~e_ret.ok /\ e_ret.sql = <<>>
        /\ e_ret.code \in {"QUERY_ERROR", "CONNECTION_ERROR"}
        /\ e_queries = e_fail_queries
        /\ ~e_file.written

\* a data page query failed after earlier queries of the export had succeeded,
\* and the command has returned the error
C8_Witness ==
    /\ e_pc = "failed"
    /\ e_failed_at = "page"
    /\ e_fail_queries >= 3
    /\ e_page_queries >= 2
    /\ ~e_file.written

\* the tables of the sections of an export document, in document order
Sections(sql) ==
    LET headers == SelectSeq(sql, LAMBDA st : st.kind = "comment")
    IN [i \in 1 .. Len(headers) |-> headers[i].table]

SeqRange(q) == {q[i] : i \in DOMAIN q}

EnginePos(t) == CHOOSE i \in DOMAIN EngineTables : EngineTables[i] = t

\* C9 as stated: the sections of a returned document are those of the
\* selected tables (of all the engine's tables for an empty selection), and
\* they follow the engine's enumeration order
C9_EngineOrder ==
    e_ret.ok =>
        LET sec == Sections(e_ret.sql) IN
        /\ SeqRange(sec) = (IF e_opts.selected_tables = <<>> THEN TableSet
                            ELSE SeqRange(e_opts.selected_tables))
        /\ \A i, j \in DOMAIN sec :
              (i < j /\ sec[i] \in TableSet /\ sec[j] \in TableSet)
                 => EnginePos(sec[i]) <= EnginePos(sec[j])

\* C9 as amended: the sections of a returned document are, in order, the
\* entries of selected_tables, or for an empty selection the engine's tables
\* in the engine's enumeration order
C9_SelectionOrder ==
    e_ret.ok =>
        Sections(e_ret.sql) = (IF e_opts.selected_tables = <<>> THEN EngineTables
                               ELSE e_opts.selected_tables)

\* a selection listed against the engine's order was exported in its own order
C9_Witness ==
    /\ e_pc = "written"
    /\ e_opts.selected_tables = <<"b", "a">>
    /\ Sections(e_file.content) = <<"b", "a">>

HeaderIdx(sql) == {i \in DOMAIN sql : sql[i].kind = "comment"}

\* the last statement of the section whose header is statement i
SectionEnd(sql, i) ==
    LET later == {j \in HeaderIdx(sql) : j > i}
    IN IF later = {} THEN Len(sql)
       ELSE (CHOOSE j \in later : \A k \in later : j <= k) - 1

\* the statements a table's section starts with, after its header
SectionHead ==
    (IF e_opts.include_drop THEN <<"drop">> ELSE <<>>)
    \o (IF e_opts.include_create THEN <<"create">> ELSE <<>>)

SectionInOrder(sql, i) ==
    LET n == SectionEnd(sql, i) - i
        kinds == [k \in 1 .. n |-> sql[i + k].kind]
        h == Len(SectionHead)
    IN /\ \A k \in 1 .. n : sql[i + k].table = sql[i].table
       /\ n >= h
       /\ SubSeq(kinds, 1, h) = SectionHead
       /\ IF e_opts.data_mode = "no_data"
          THEN n = h
          ELSE /\ n > h
               /\ kinds[n] = "newline"
               /\ \A k \in (h + 1) .. (n - 1) : kinds[k] = "insert"

\* C10: every section of a returned document is its header, then DROP exactly
\* when include_drop, then CREATE exactly when include_create, then the
\* row-data statements; with data mode no_data no data page is ever queried
\* and no row-data statement is ever pushed
C10_SectionOrder ==
    /\ e_ret.ok =>
          /\ e_ret.sql # <<>> => e_ret.sql[1].kind = "comment"
          /\ \A i \in HeaderIdx(e_ret.sql) : SectionInOrder(e_ret.sql, i)
    /\ e_opts.data_mode = "no_data" =>
          /\ e_page_queries = 0
          /\ \A i \in DOMAIN sql_content : sql_content[i].kind # "insert"

\* a written export with DROP, CREATE and a row-data statement of two rows
C10_Witness ==
    /\ e_pc = "written"
    /\ e_opts.include_drop
    /\ e_opts.include_create
    /\ e_opts.data_mode = "replace"
    /\ \E i \in DOMAIN e_file.content :
          /\ e_file.content[i].kind = "insert"
          /\ Len(e_file.content[i].rows) = 2
          /\ e_file.content[i - 1].kind = "create"

\* an export without row data was written
C10_NoDataWitness ==
    /\ e_pc = "written"
    /\ e_opts.data_mode = "no_data"
    /\ e_opts.include_create
    /\ ~e_opts.include_drop
    /\ Len(e_file.content) = 4

(***************************************************************************)
(* Properties of the row batches (specification SpecBatch).                 *)
(***************************************************************************)
\* the row-data statements of table t in an export document, in order
InsertsOf(sql, t) == SelectSeq(sql, LAMBDA st : st.kind = "insert" /\ st.table = t)

RECURSIVE RowsOf(_)
RowsOf(statements) ==
    IF statements = <<>> THEN <<>>
    ELSE Head(statements).rows \o RowsOf(Tail(statements))

CeilDiv(n, m) == (n + m - 1) \div m

\* C11: for a table of N rows in one page and max_insert_size m >= 1 a
\* returned document holds ceil(N/m) row-data statements of the table, each of
\* m rows but for a last one of N mod m rows when that is not zero, and their
\* rows in order are the rows 1 .. N as the engine returned them
C11_BatchSizes ==
    (e_ret.ok /\ e_opts.max_insert_size >= 1) =>
        \A t \in SeqRange(Sections(e_ret.sql)) :
            LET ins == InsertsOf(e_ret.sql, t)
                N == e_rows[t]
                m == e_opts.max_insert_size
            IN /\ Len(ins) = CeilDiv(N, m)
               /\ \A k \in 1 .. Len(ins) :
                     Len(ins[k].rows) = IF k < Len(ins) \/ N % m = 0 THEN m ELSE N % m
               /\ RowsOf(ins) = [i \in 1 .. N |-> i]

\* seven rows were written in batches of three, three and one
C11_Witness ==
    /\ e_pc = "written"
    /\ e_variant = "mariadb"
    /\ e_opts.max_insert_size = 3
    /\ e_rows["a"] = 7
    /\ LET ins == InsertsOf(e_file.content, "a")
       IN /\ Len(ins) = 3
          /\ ins[1].rows = <<1, 2, 3>> /\ ins[2].rows = <<4, 5, 6>> /\ ins[3].rows = <<7>>

(***************************************************************************)
(* C14: every query a driver sends is guarded by the default query        *)
(* timeout: no driver waits for an answer past the deadline, a wait that   *)
(* reaches the deadline without an answer returns TIMEOUT_ERROR and no     *)
(* other code, and a failure the engine reports before the deadline never  *)
(* returns TIMEOUT_ERROR.                                                   *)
(***************************************************************************)
TimeoutCodes(site) ==
    /\ (t_ret # "none" /\ Elapsed) => t_ret = "TIMEOUT_ERROR"
    /\ (t_engine = "failed" /\ ~Elapsed) => t_ret = site.code /\ t_ret # "TIMEOUT_ERROR"

C14_QueryTimeouts ==
    t_site # NoSite =>
        /\ t_clock <= DEFAULT_QUERY_TIMEOUT
        /\ TimeoutCodes(t_site)

\* the part of C14 that holds: the queries that are wrapped in timeout(..)
C14_GuardedQueryTimeouts ==
    (t_site # NoSite /\ Guarded(t_site)) =>
        /\ t_clock <= DEFAULT_QUERY_TIMEOUT
        /\ TimeoutCodes(t_site)

\* a guarded query whose deadline passed unanswered
C14_TimedOut == Guarded(t_site) /\ t_ret = "TIMEOUT_ERROR"

\* the data query of the MariaDB export still waits after the deadline
C14_ExportWaitsOn ==
    /\ t_site.variant = "mariadb" /\ t_site.line = 757
    /\ t_clock > DEFAULT_QUERY_TIMEOUT
    /\ t_ret = "none"

(***************************************************************************)
(* C15: disconnect is idempotent and safe with nothing connected.  As the  *)
(* claim states it: every disconnect of a run of consecutive disconnects   *)
(* returns ok, only the first one after a connect finds a connection, and  *)
(* after any of them the slot is empty and nothing but the invocation that *)
(* took the connection out still holds one.                                 *)
(***************************************************************************)
DisconnectedState ==
    Len(d_log) >= 1 =>
        /\ slot = NoConn
        /\ \A i \in 2..Len(d_log) : ~d_log[i].had
        /\ \A p \in Procs :
              own[p] # NoConn =>
                  \/ cmd[p] = "connect_to_database"
                  \/ cmd[p] = "disconnect_from_database" /\ pc[p] \in {"disc", "done"}

C15_EmptyWitness == Len(d_log) >= 1 /\ ~d_log[1].had

(***************************************************************************)
(* C16: decrypting what encrypt_password made of a password gives the      *)
(* password back, for every password, the empty one included, under the    *)
(* key that encrypted it.                                                   *)
(***************************************************************************)
C16_RoundTrip ==
    (c_how = "encrypted" /\ c_out.some) => c_out.v = c_password

\* the empty password went through encryption and decryption
C16_Witness ==
    /\ c_how = "encrypted"
    /\ c_out.some
    /\ c_password = <<>>
    /\ Len(c_stored) > 0

\* a password with characters of several bytes went through
C16_WideWitness ==
    /\ c_how = "encrypted"
    /\ c_out.some
    /\ \E i \in 1..Len(c_password) : c_password[i] >= 128

(***************************************************************************)
(* C17: a stored value that is the base64 text of a password, without      *)
(* nonce or tag, decrypts to that password, on the short value path and on *)
(* the path of the failed decryption alike.                                 *)
(***************************************************************************)
C17_LegacyDecrypts ==
    (c_how = "legacy" /\ c_out.some) => c_out.v = c_password

\* a legacy value long enough to be taken for nonce and ciphertext: the
\* decryption was tried and failed
C17_Witness ==
    /\ c_how = "legacy"
    /\ c_out.some
    /\ Len(c_password) >= FramedLength
    /\ ~AeadDecrypt(c_key, SubSeq(c_password, 1, NONCE_LENGTH),
                    SubSeq(c_password, NONCE_LENGTH + 1, Len(c_password))).ok

\* a legacy value on the short value path
C17_ShortWitness ==
    /\ c_how = "legacy"
    /\ c_out.some
    /\ Len(c_password) > 0
    /\ Len(c_password) < FramedLength

\* C16, for the store: a profile saved with a password comes back from
\* get_connections and from get_connection with that password
C16_SavedPasswordReturned ==
    /\ s_call.op = "get_connections" =>
          /\ Len(s_ret.v) = Len(s_rows)
          /\ \A i \in 1..Len(s_ret.v) : <<s_ret.v[i].id, s_ret.v[i].password>> \in s_plain
    /\ (s_call.op = "get_connection" /\ s_ret.some) =>
          <<s_call.arg, s_ret.v.password_encrypted>> \in s_plain

\* both passwords, the empty one among them, came back from get_connections
C16_StoreWitness ==
    /\ s_call.op = "get_connections"
    /\ Len(s_ret.v) = 2
    /\ s_ret.v[1].password # s_ret.v[2].password

(***************************************************************************)
(* C18: a save with an empty id adds one profile under a new id that is    *)
(* not empty and not the id of a stored profile, and hands back the        *)
(* profile with that id; a save with the id of a stored profile replaces   *)
(* every field of that profile and leaves the other profiles and their     *)
(* number as they were; stored ids are unique.                              *)
(***************************************************************************)
Without(rows, id) == SelectSeq(rows, LAMBDA r : r.id # id)

RowOf(rows, id) == CHOOSE r \in { rows[i] : i \in 1..Len(rows) } : r.id = id

HoldsProfile(row, conn) ==
    /\ row.name = conn.name
    /\ row.db_type = conn.db_type
    /\ row.host = conn.host
    /\ row.port = conn.port
    /\ row.username = conn.username
    /\ decrypt_password(s_key, row.password_encrypted) = conn.password
    /\ row.database = conn.database
    /\ row.ssl_mode = conn.ssl_mode

StoredIdsUnique ==
    \A i, j \in 1..Len(s_rows) : i # j => s_rows[i].id # s_rows[j].id

\* a step of the command save_connection
SaveStep == s_now' = s_now /\ s_call'.op = "save_connection"

\* what the step did to the table, and the id of the profile handed back
SaveEffect(handed_back_id) ==
    LET conn == s_call'.arg
        last == s_rows'[Len(s_rows')]
    IN /\ conn.id = EmptyId =>
             /\ Len(s_rows') = Len(s_rows) + 1
             /\ last.id # EmptyId
             /\ last.id \notin RowIds(s_rows)
             /\ HoldsProfile(last, conn)
             /\ Without(s_rows', last.id) = s_rows
             /\ handed_back_id = last.id
       /\ conn.id \in RowIds(s_rows) =>
             /\ Len(s_rows') = Len(s_rows)
             /\ HoldsProfile(RowOf(s_rows', conn.id), conn)
             /\ Without(s_rows', conn.id) = Without(s_rows, conn.id)
             /\ handed_back_id = conn.id
       /\ \A i, j \in 1..Len(s_rows') : i # j => s_rows'[i].id # s_rows'[j].id

C18_SaveHandsBackId == [][SaveStep => SaveEffect(s_ret'.v.id)]_vars

\* the part of C18 that holds: the same with the profile that
\* ConnectionsStore::save_connection returns, which the command drops
C18_StoreSaveReturnsId == [][SaveStep => SaveEffect(s_store_ret'.v.id)]_vars

\* a save with an empty id was stored under a new id and handed back without it
C18_EmptyIdHandedBack ==
    /\ s_call.op = "save_connection"
    /\ s_call.arg.id = EmptyId
    /\ s_ret.v.id = EmptyId
    /\ s_store_ret.v.id \in RowIds(s_rows)

(***************************************************************************)
(* C19: get_connections returns the stored profiles newest first: of any   *)
(* two, the one saved later comes before the one saved earlier.             *)
(***************************************************************************)
\* the place of the profile in the order of the saves (its rowid order)
SavedAt(id) == CHOOSE i \in 1..Len(s_rows) : s_rows[i].id = id

C19_NewestFirst ==
    s_call.op = "get_connections" =>
        \A i, j \in 1..Len(s_ret.v) :
            i < j => SavedAt(s_ret.v[i].id) > SavedAt(s_ret.v[j].id)

\* the part of C19 that holds: profiles saved in different seconds
C19_NewestSecondFirst ==
    s_call.op = "get_connections" =>
        \A i, j \in 1..Len(s_ret.v) :
            RowOf(s_rows, s_ret.v[i].id).created_at > RowOf(s_rows, s_ret.v[j].id).created_at
                => i < j /\ SavedAt(s_ret.v[i].id) > SavedAt(s_ret.v[j].id)

\* two profiles saved within one second came back oldest first
C19_SameSecondOldestFirst ==
    /\ s_call.op = "get_connections"
    /\ Len(s_ret.v) = 2
    /\ s_rows[1].created_at = s_rows[2].created_at
    /\ s_ret.v[1].id = s_rows[1].id

(***************************************************************************)
(* C20: delete_connection of an id that is not stored returns false and    *)
(* leaves the stored profiles as they are; of a stored id it returns true  *)
(* and removes that profile and no other, so that a second delete of the   *)
(* id returns false.                                                        *)
(***************************************************************************)
DeleteStep == s_now' = s_now /\ s_call'.op = "delete_connection"

C20_DeleteReports ==
    [][DeleteStep =>
        LET id == s_call'.arg
        IN /\ s_ret'.some
           /\ s_ret'.v = (id \in RowIds(s_rows))
           /\ id \notin RowIds(s_rows) => s_rows' = s_rows
           /\ s_rows' = Without(s_rows, id)
           /\ id \notin RowIds(s_rows')]_vars

\* a stored profile was deleted and the other one is still there
C20_Witness ==
    /\ s_call.op = "delete_connection"
    /\ s_ret.v = TRUE
    /\ Len(s_rows) = 1
    /\ s_call.arg \notin RowIds(s_rows)

\* the delete of an id that was stored and deleted before returned false
C20_SecondWitness ==
    /\ s_call.op = "delete_connection"
    /\ s_call.arg = Uuid(1)
    /\ s_ret.v = FALSE
    /\ Len(s_rows) >= 1

\* the delete of an id that was never stored returned false
C20_UnknownWitness ==
    /\ s_call.op = "delete_connection"
    /\ s_call.arg = CallerId
    /\ s_ret.v = FALSE
    /\ Len(s_rows) >= 1

(***************************************************************************)
(* Properties of the generated text (specification SpecFormat).             *)
(***************************************************************************)
InsertLines == {i \in DOMAIN w_lines : w_lines[i].kind = "insert"}
EscapedColumns ==
    [j \in DOMAIN w_columns |-> EscapeIdentifier(w_variant, w_columns[j].name)]

\* the pieces a conflict clause opens with
ConflictOpeners ==
    {" ON CONFLICT DO UPDATE SET ", " ON CONFLICT DO NOTHING", " ON CONFLICT ("}
HasConflictClause(text) == \E i \in DOMAIN text : text[i] \in ConflictOpeners
EndsWith(text, end) ==
    /\ Len(text) >= Len(end)
    /\ SubSeq(text, Len(text) - Len(end) + 1, Len(text)) = end

\* the shape the data mode gives a statement; with targeted, the DO UPDATE
\* of PostgreSQL names a conflict target
ModeShape(text, targeted) ==
    LET updates == ExcludedUpdates(EscapedColumns) \o <<";\n">>
        opener == Len(text) - Len(updates)
    IN  IF w_variant = "mariadb"
        THEN /\ ~HasConflictClause(text)
             /\ text[2] = " INTO "
             /\ text[1] = CASE w_data_mode = "insert" -> "INSERT"
                            [] w_data_mode = "replace" -> "REPLACE"
                            [] w_data_mode = "insert_ignore" -> "INSERT IGNORE"
        ELSE /\ text[1] = "INSERT INTO \""
             /\ CASE w_data_mode = "insert" -> ~HasConflictClause(text)
                  [] w_data_mode = "insert_ignore" ->
                        EndsWith(text, <<" ON CONFLICT DO NOTHING", ";\n">>)
                  [] w_data_mode = "replace" ->
                        /\ EndsWith(text, updates)
                        /\ opener >= 1
                        /\ IF targeted
                           THEN /\ text[opener] = ") DO UPDATE SET "
                                /\ \E i \in 1 .. opener - 1 : text[i] = " ON CONFLICT ("
                           ELSE text[opener] = " ON CONFLICT DO UPDATE SET "

\* C21: every row-data statement has the shape of its data mode: insert is a
\* plain INSERT without a conflict clause; replace is REPLACE INTO on MariaDB
\* and, on PostgreSQL, INSERT ... ON CONFLICT with a conflict target DO UPDATE
\* SET of every column from EXCLUDED; insert_ignore is INSERT IGNORE on
\* MariaDB and INSERT ... ON CONFLICT DO NOTHING on PostgreSQL
C21_ModeShapesStatement ==
    \A i \in InsertLines : ModeShape(w_lines[i].text, TRUE)

\* the same, the PostgreSQL DO UPDATE without a conflict target
C21_ModeShapesStatementUntargeted ==
    \A i \in InsertLines : ModeShape(w_lines[i].text, FALSE)

\* the name an escaped text stands for: doubled quote characters are one
RECURSIVE Undouble(_, _)
Undouble(e, q) ==
    IF e = <<>> THEN <<>>
    ELSE IF Head(e) # q THEN <<Head(e)>> \o Undouble(Tail(e), q)
    ELSE IF Len(e) >= 2 /\ e[2] = q THEN <<q>> \o Undouble(Tail(Tail(e)), q)
    ELSE <<"unpaired quote">> \o Undouble(Tail(e), q)

\* the text of a line when written is what it has at the place of each name
LineText(line, written) ==
    CASE line.kind = "use" -> UseStatement(written[1])
      [] line.kind = "header" -> TableHeader(written[1])
      [] line.kind = "drop" -> DropStatement(w_variant, written[1])
      [] line.kind = "query" -> DataQuery(w_variant, written[1], 0)
      [] line.kind = "insert" ->
            InsertStatement(w_variant, written[1], Tail(written), line.values, w_data_mode)

\* the line has each of its names in escaped form
NamesEscaped(line) ==
    LET q == IF w_variant = "mariadb" THEN Backtick ELSE "\""
        escaped == [k \in DOMAIN line.names |-> EscapeIdentifier(w_variant, line.names[k])]
    IN  /\ \A k \in DOMAIN line.names : Undouble(escaped[k], q) = line.names[k]
        /\ line.text = LineText(line, escaped)

\* C22: every table, column or database name a driver places into a
\* generated text is there in escaped form, each quote character of the
\* engine doubled
C22_NamesEscaped ==
    \A i \in DOMAIN w_lines : NamesEscaped(w_lines[i])

\* the same of every text but the comment that opens a table's section
C22_StatementsEscaped ==
    \A i \in DOMAIN w_lines : w_lines[i].kind # "header" => NamesEscaped(w_lines[i])

\* C23: the literal of a column value is NULL exactly when the value is SQL
\* NULL, and the literal of a non-NULL value of a numeric type is its text
\* without quotes
C23_Literals ==
    \A i \in InsertLines : \A r \in DOMAIN w_rows : \A j \in DOMAIN w_columns :
        LET cell == w_rows[r][j]
            literal == w_lines[i].values[r][j]
        IN  /\ (literal = <<"NULL">>) <=> cell.null
            /\ (~cell.null /\ cell.type \in NumericTypes) => literal = cell.v

\* what holds of the literals: NULL is NULL, a text is quoted with its quotes
\* doubled, a PostgreSQL boolean is TRUE or FALSE
C23_NullAndTextLiterals ==
    \A i \in InsertLines : \A r \in DOMAIN w_rows : \A j \in DOMAIN w_columns :
        LET cell == w_rows[r][j]
            literal == w_lines[i].values[r][j]
        IN  /\ cell.null => literal = <<"NULL">>
            /\ (~cell.null /\ cell.type = "TEXT") =>
                  /\ Head(literal) = "'"
                  /\ literal[Len(literal)] = "'"
                  /\ Undouble(SubSeq(literal, 2, Len(literal) - 1), "'") = cell.v
            /\ (~cell.null /\ cell.type = "BOOL" /\ w_variant = "postgresql") =>
                  literal \in {<<"TRUE">>, <<"FALSE">>}

(***************************************************************************)
(* Properties of the row-data loop over pages (specifications SpecPages,    *)
(* SpecPagesLive).                                                          *)
(***************************************************************************)
\* the statements PageStatements gives a page are those the row loop of
\* SpecExport writes row by row (specification SpecExport)
PageStatementsAsRowLoop ==
    (e_ret.ok /\ e_opts.data_mode # "no_data") =>
        \A t \in SeqRange(Sections(e_ret.sql)) :
            Len(SelectSeq(Sections(e_ret.sql), LAMBDA u : u = t)) = 1 =>
                LET ins == InsertsOf(e_ret.sql, t)
                    page == PageStatements(0, e_rows[t], e_opts.max_insert_size)
                IN  /\ Len(ins) = Len(page)
                    /\ \A k \in DOMAIN page :
                          ins[k].rows =
                              [i \in 1 .. page[k].last - page[k].first + 1 |->
                                  page[k].first + i - 1]

LoopLeft == p_pc \in {"out", "returned"}

\* the offsets 0, B, 2B, ... of floor(n / B) + 1 page queries
PageOffsets(n) == [k \in 1 .. n \div BATCH_SIZE + 1 |-> (k - 1) * BATCH_SIZE]

\* the statements hold rows 1 .. n, each row once, in page order
EveryRowOnce(statements, n) ==
    /\ statements = <<>> <=> n = 0
    /\ statements # <<>> =>
          /\ statements[1].first = 1
          /\ statements[Len(statements)].last = n
    /\ \A k \in DOMAIN statements :
          /\ statements[k].first <= statements[k].last
          /\ k > 1 => statements[k].first = statements[k - 1].last + 1

\* C24: the row-data loop over an unchanged table of N rows ends; it has then
\* sent floor(N / BATCH_SIZE) + 1 page queries, at the offsets 0, BATCH_SIZE,
\* 2 * BATCH_SIZE, ..., the last of them the first to return fewer than
\* BATCH_SIZE rows, and every row of the table is in exactly one row-data
\* statement, in page order
C24_PagesEnd ==
    /\ <>(p_pc = "returned")
    /\ [](LoopLeft =>
            /\ p_queries = PageOffsets(p_rows)
            /\ \A k \in DOMAIN p_queries :
                  ShortPage(PageRows(p_rows, p_queries[k])) <=> k = Len(p_queries)
            /\ EveryRowOnce(p_statements, p_rows))

C24_Witness ==
    /\ p_pc = "returned"
    /\ p_rows = MaxFullPages * BATCH_SIZE
    /\ Len(p_queries) = MaxFullPages + 1
    /\ p_max_insert_size = BATCH_SIZE + 1
    /\ Len(p_statements) = MaxFullPages

\* C25: at every point of an export the rows held in memory, buffered or in
\* generated text that has not been handed over, are at most one page
C25_OnePageHeld == HeldRows <= BATCH_SIZE

\* what holds: the rows buffered outside the generated text are one page at most
C25_OnePageBuffered == HeldRows - (IF p_pc # "returned" THEN p_text_rows ELSE 0) <= BATCH_SIZE

\* C30: no row-data statement is without rows, whatever the size of the table
\* (empty, a multiple of the page size) and whatever max_insert_size; with
\* max_insert_size = 0 every row-data statement holds exactly one row
C30_NoEmptyStatement ==
    \A k \in DOMAIN p_statements :
        /\ p_statements[k].last >= p_statements[k].first
        /\ p_max_insert_size = 0 => p_statements[k].last = p_statements[k].first

C30_Witness ==
    /\ p_pc = "returned"
    /\ p_max_insert_size = 0
    /\ p_rows = BATCH_SIZE
    /\ Len(p_queries) = 2
    /\ Len(p_statements) = BATCH_SIZE

(***************************************************************************)
(* Properties of a connect or disconnect that fails (specifications Spec,   *)
(* SpecDisconnect).                                                         *)
(***************************************************************************)
\* invocation p is in connect_to_database and has not stored its connection
Connecting(p) ==
    /\ cmd[p] = "connect_to_database"
    /\ pc[p] = "wait" \/ (pc[p] = "done" /\ res[p] # "ok")

C26_Step ==
    \A p \in Procs :
        \* the step in which create_connection returns
        /\ (pc[p] = "idle" /\ cmd'[p] = "connect_to_database") =>
              /\ slot' = slot
              /\ lock' = lock
              /\ pc'[p] = "done" => res'[p] \in CreateConnectionErrors
        \* the slot is written by a connect that has its connection, under the lock
        /\ (cmd[p] = "connect_to_database" /\ slot' # slot /\ pc'[p] # pc[p]) =>
              /\ pc[p] = "wait" /\ lock = 0 /\ lock' = p
              /\ res'[p] = "ok" /\ slot' = own[p]

\* C26: a connect_to_database that fails (unsupported engine, connection or
\* SSL error) leaves the slot exactly as it was, and the connection that was
\* in it stays usable; the new connection is built before the slot lock is
\* taken, and the slot is written only when it has been built
C26_FailedConnectKeepsSlot ==
    /\ [](\A p \in Procs : Connecting(p) => lock # p)
    /\ [][C26_Step]_vars

\* a connect has failed on an unsupported engine while another invocation
\* runs a command on the connection that was in the slot before
C26_Witness ==
    \E p, q \in Procs :
        /\ cmd[p] = "connect_to_database" /\ pc[p] = "done" /\ res[p] = "INVALID_DB_TYPE"
        /\ slot # NoConn
        /\ InDriver(q) /\ hconn[q] = "slot"

C27_State ==
    /\ \A p \in Procs :
          \* the connection is taken out before the driver is called
          /\ pc[p] = "disc" => (slot = NoConn /\ own[p] # NoConn /\ lock = p)
          \* the error of the driver is what the command returns
          /\ (cmd[p] = "disconnect_from_database" /\ pc[p] = "done" /\ res[p] # "ok") =>
                (d_log # <<>> /\ d_log[1].had /\ d_log[1].res = res[p])
    /\ d_log # <<>> => slot = NoConn

C27_Step ==
    \A p \in Procs :
        /\ (d_log # <<>> /\ pc[p] = "idle" /\ cmd'[p] \in UseCmds) =>
              (pc'[p] = "done" /\ res'[p] = "No active connection" /\ slot' = NoConn)
        /\ (d_log # <<>> /\ slot' # NoConn) =>
              \E q \in Procs : cmd[q] = "connect_to_database" /\ pc[q] = "wait"
                               /\ pc'[q] = "done" /\ res'[q] = "ok"

ChangeHasFailed(p) ==
    /\ cmd[p] = "change_database"
    /\ pc[p] = "done"
    /\ res[p] \in {"CONNECTION_ERROR", "QUERY_ERROR", "SSL_ERROR"}

C28_State ==
    \A p \in Procs :
        /\ ChangeHasFailed(p) =>
              /\ slot.current_database = slot.lastOk
              /\ slot.variant = "postgresql" =>
                    (slot.client_db = slot.lastOk /\ slot.clients = {slot.client})
        \* what is read and run afterwards is the name and database of before
        /\ (pc[p] = "done" /\ res[p] = "ok" /\ hconn[p] = "slot" /\ slot # NoConn) =>
              /\ cmd[p] = "get_current_database" => out[p] = slot.lastOk
              /\ cmd[p] \in ScopedCmds => ranOn[p] = slot.lastOk

C28_Step ==
    \A p \in Procs :
        (~ChangeHasFailed(p) /\ ChangeHasFailed(p)') => slot' = slot

\* C28: a change_database(name) that fails leaves the connection as it was in
\* both variants: get_current_database returns the name of before, the
\* PostgreSQL connection holds the client of before, and later operations run
\* against the database of before
C28_FailedChangeKeepsConnection == []C28_State /\ [][C28_Step]_vars

\* a change_database has failed on a PostgreSQL connection whose client an
\* earlier change_database had replaced
C28_Witness ==
    \E p \in Procs :
        /\ ChangeHasFailed(p)
        /\ slot.variant = "postgresql"
        /\ slot.client = 2
        /\ arg[p] # slot.current_database

(***************************************************************************)
(* Properties of the locks (specifications SpecLocks, SpecLocksLive).       *)
(***************************************************************************)
\* the order of the locks of a connection and its slot
LockRank(l) ==
    CASE l = "active_conn" -> 1
      [] l = "client" -> 2
      [] l = "current_database" -> 3

\* invocation p may ask for lock l with what it holds
InLockOrder(p, l) ==
    IF l = "db" THEN k_held[p] = <<>>
    ELSE \A h \in Held(p) : h # "db" /\ LockRank(h) < LockRank(l)

C29_LockOrder ==
    \A p \in Procs :
        /\ \A l \in Locks : WaitsFor(p, l) => InLockOrder(p, l)
        /\ "db" \in Held(p) => k_held[p] = <<"db">>
        /\ \A i, j \in DOMAIN k_held[p] :
              (i < j /\ k_held[p][j] # "db") =>
                  (k_held[p][i] # "db" /\ LockRank(k_held[p][i]) < LockRank(k_held[p][j]))
        /\ \A q \in Procs : p # q => Held(p) \cap Held(q) = {}

\* C29: the commands do not deadlock: an invocation asks for the slot lock,
\* then the client lock, then the current-database lock, never in another
\* order, and never for the lock of the credential store while it holds one of
\* them or the other way round; so, every await of a driver call returning,
\* every command that waits for a lock acquires it, and returns
C29_NoDeadlock ==
    /\ []C29_LockOrder
    /\ \A p \in Procs :
          /\ Waits(p) ~> ~Waits(p)
          /\ (k_cmd[p] # "none") ~> (k_cmd[p] = "none")

\* an invocation waits for the slot lock while a change_database of the
\* PostgreSQL driver holds all three locks
C29_Witness ==
    \E p, q \in Procs :
        /\ WaitsFor(p, "active_conn")
        /\ k_cmd[p] # "connect_to_database"
        /\ k_held[q] = <<"active_conn", "client", "current_database">>

====
